---------------------------- MODULE Spec2Model ----------------------------
(*************************************************************************)
(* A model of the MCP example server: the configuration-gated tool       *)
(* catalog (list_tools), the dispatcher (call_tool), the file backend    *)
(* (FileTools) and the LM Studio adapter (LMStudioTools).                *)
(*                                                                       *)
(* Texts (messages, envelope texts, URLs) are sequences of parts, so     *)
(* that "prefix + message" is sequence concatenation.  Path strings are  *)
(* sequences of characters, so that str.startswith is a real prefix test.*)
(*************************************************************************)
EXTENDS Integers, Sequences, FiniteSets, TLC

VARIABLES
    configFile,        \* what is stored at the configuration path
    started,           \* "no" | "ok" | "failed": outcome of MCPServerImpl.__init__
    config,            \* self.config
    lm_studio,         \* self.lm_studio: None or the adapter
    listed_tools,      \* what the last list_tools() call returned
    listed_resources,  \* what the last list_resources() call returned
    fs,                \* the file system: absolute path -> node
    fcall,             \* the last direct call of a FileTools method
    inv,               \* the call_tool invocation in progress or last finished
    dcall,             \* the last direct call of DataTools.process_data
    prev,              \* what a client of the adapter saw in its earlier calls
    environ,           \* os.environ: the value of LM_STUDIO_URL, if set
    clients,           \* per backend: HTTP clients created, clients closed
    vcall              \* the last direct call of validate_tool_input

vars == <<configFile, started, config, lm_studio, listed_tools,
          listed_resources, fs, fcall, inv, dcall, prev, environ, clients,
          vcall>>

\* Python's None, and an absent dictionary key: records, so that they
\* compare with the records that stand for the values
None == [none |-> TRUE]
Absent == [set |-> FALSE]
Given(v) == [set |-> TRUE, value |-> v]

NotCalled == [called |-> FALSE]
Returned(v) == [called |-> TRUE, value |-> v]

-----------------------------------------------------------------------------
(* Bounds of the model *)

\* longest tools.enabled list a configuration file holds
MaxEnabled == 2

\* most entries in the gateway's model list
MaxModels == 2

\* most files and directories the modelled disk holds
MaxNodes == 6

\* longest "required" list of a schema given to validate_tool_input
MaxRequired == 2

\* longest JSON list given to process_data
MaxItems == 3

-----------------------------------------------------------------------------
(* Generic helpers *)

Range(s) == {s[i] : i \in 1..Len(s)}

SeqsUpTo(S, n) == UNION {[1..k -> S] : k \in 0..n}

IsPrefix(p, s) == Len(p) <= Len(s) /\ SubSeq(s, 1, Len(p)) = p

-----------------------------------------------------------------------------
(* Configuration: utils/helpers.py load_config and the keys __init__ reads *)

CatalogNames ==
    {"read_file", "write_file", "list_files", "call_api", "process_data",
     "lm_studio_generate", "lm_studio_chat", "lm_studio_list_models",
     "lm_studio_test_connection"}

\* names a configuration may list: the catalog and one name outside it
ConfigNames == CatalogNames \cup {"calculate"}

Slash == "/"
DefaultUrl == <<"http://localhost:1234">>
OtherUrl == <<"http://gw:8080", Slash>>
EnvUrl == <<"http://env:9090">>

\* os.environ as __init__ finds it: LM_STUDIO_URL unset or set
Environments == {Absent, Given(EnvUrl)}

\* a JSON object as the code reads it: absent keys are their defaults
ConfigObjects ==
    [tools_enabled : SeqsUpTo(ConfigNames, MaxEnabled),
     lm_enabled : BOOLEAN,
     lm_base_url : {Absent, Given(OtherUrl)},
     resources_enabled : BOOLEAN]

EmptyConfig ==
    [tools_enabled |-> <<>>, lm_enabled |-> FALSE, lm_base_url |-> Absent,
     resources_enabled |-> FALSE]

BrokenKinds == {"absent", "invalid_json", "unreadable"}

\* "non_object": valid JSON whose top level is not an object (e.g. [])
\* "no_path": MCPServerImpl() is given no config_path
FileKinds == BrokenKinds \cup {"non_object", "no_path", "object"}

ConfigFileOf(kind, obj) == [kind |-> kind, content |-> obj]

\* load_config without its except clause for a file that is not JSON: the
\* decode error's value reaches the constructor instead of {}
load_config_no_decode_guard(file) ==
    CASE file.kind = "absent" -> EmptyConfig
      [] file.kind = "invalid_json" -> [not_a_dict |-> TRUE]
      [] file.kind = "unreadable" -> EmptyConfig
      [] file.kind = "non_object" -> [not_a_dict |-> TRUE]
      [] OTHER -> file.content

\* load_config returns {} on every failure, else whatever json.load gives
load_config(file) ==
    CASE file.kind = "absent" -> EmptyConfig
      [] file.kind = "invalid_json" -> EmptyConfig
      [] file.kind = "unreadable" -> EmptyConfig
      [] file.kind = "non_object" -> [not_a_dict |-> TRUE]
      [] OTHER -> file.content

RECURSIVE rstrip_slash(_)
rstrip_slash(url) ==
    IF url # <<>> /\ url[Len(url)] = Slash
    THEN rstrip_slash(SubSeq(url, 1, Len(url) - 1))
    ELSE url

\* os.getenv(name, default) for the one name the code reads
getenv(env, default) == IF env.set THEN env.value ELSE default

\* LMStudioTools.__init__(base_url), base_url None or Given(a string): the
\* environment is read only when it is None; base_url.rstrip('/'), one
\* HTTP client
LMStudioTools_init(base_url, env) ==
    [base_url |-> rstrip_slash(IF base_url = None
                               THEN getenv(env, DefaultUrl)
                               ELSE base_url.value)]

\* the adapter MCPServerImpl.__init__ builds: lm_studio.enabled gates it,
\* and lm_studio_config.get("base_url", "http://localhost:1234") is what
\* the adapter is given, so never None for a configuration without the key
InitLmStudio(cfg, env) ==
    IF cfg.lm_enabled
    THEN LMStudioTools_init(Given(IF cfg.lm_base_url.set
                                  THEN cfg.lm_base_url.value
                                  ELSE DefaultUrl), env)
    ELSE None

\* _is_tool_enabled that does not look at the configuration
_is_tool_enabled_always(cfg, tool_name) == tool_name \in CatalogNames

_is_tool_enabled(cfg, tool_name) == tool_name \in Range(cfg.tools_enabled)

-----------------------------------------------------------------------------
(* list_tools: one conditional append per tool, in source order *)

Tool(name, required) == [name |-> name, required |-> required]

ToolIf(cond, name, required) ==
    IF cond THEN <<Tool(name, required)>> ELSE <<>>

\* list_tools whose lm_studio_* blocks test enablement only, not the adapter
list_tools_ungated(cfg, lm) ==
    ToolIf(_is_tool_enabled(cfg, "read_file"), "read_file", <<"path">>)
    \o ToolIf(_is_tool_enabled(cfg, "write_file"), "write_file",
              <<"path", "content">>)
    \o ToolIf(_is_tool_enabled(cfg, "list_files"), "list_files",
              <<"directory">>)
    \o ToolIf(_is_tool_enabled(cfg, "call_api"), "call_api",
              <<"url", "method">>)
    \o ToolIf(_is_tool_enabled(cfg, "process_data"), "process_data",
              <<"data", "operation">>)
    \o ToolIf(_is_tool_enabled(cfg, "lm_studio_generate"),
              "lm_studio_generate", <<"prompt">>)
    \o ToolIf(_is_tool_enabled(cfg, "lm_studio_chat"),
              "lm_studio_chat", <<"messages">>)
    \o ToolIf(_is_tool_enabled(cfg, "lm_studio_list_models"),
              "lm_studio_list_models", <<>>)
    \o ToolIf(_is_tool_enabled(cfg, "lm_studio_test_connection"),
              "lm_studio_test_connection", <<>>)

\* list_tools with the write_file block placed before the read_file block
list_tools_swapped(cfg, lm) ==
    ToolIf(_is_tool_enabled(cfg, "write_file"), "write_file",
           <<"path", "content">>)
    \o ToolIf(_is_tool_enabled(cfg, "read_file"), "read_file", <<"path">>)
    \o ToolIf(_is_tool_enabled(cfg, "list_files"), "list_files",
              <<"directory">>)
    \o ToolIf(_is_tool_enabled(cfg, "call_api"), "call_api",
              <<"url", "method">>)
    \o ToolIf(_is_tool_enabled(cfg, "process_data"), "process_data",
              <<"data", "operation">>)
    \o ToolIf(lm # None /\ _is_tool_enabled(cfg, "lm_studio_generate"),
              "lm_studio_generate", <<"prompt">>)
    \o ToolIf(lm # None /\ _is_tool_enabled(cfg, "lm_studio_chat"),
              "lm_studio_chat", <<"messages">>)
    \o ToolIf(lm # None /\ _is_tool_enabled(cfg, "lm_studio_list_models"),
              "lm_studio_list_models", <<>>)
    \o ToolIf(lm # None /\ _is_tool_enabled(cfg, "lm_studio_test_connection"),
              "lm_studio_test_connection", <<>>)

list_tools(cfg, lm) ==
    ToolIf(_is_tool_enabled(cfg, "read_file"), "read_file", <<"path">>)
    \o ToolIf(_is_tool_enabled(cfg, "write_file"), "write_file",
              <<"path", "content">>)
    \o ToolIf(_is_tool_enabled(cfg, "list_files"), "list_files",
              <<"directory">>)
    \o ToolIf(_is_tool_enabled(cfg, "call_api"), "call_api",
              <<"url", "method">>)
    \o ToolIf(_is_tool_enabled(cfg, "process_data"), "process_data",
              <<"data", "operation">>)
    \o ToolIf(lm # None /\ _is_tool_enabled(cfg, "lm_studio_generate"),
              "lm_studio_generate", <<"prompt">>)
    \o ToolIf(lm # None /\ _is_tool_enabled(cfg, "lm_studio_chat"),
              "lm_studio_chat", <<"messages">>)
    \o ToolIf(lm # None /\ _is_tool_enabled(cfg, "lm_studio_list_models"),
              "lm_studio_list_models", <<>>)
    \o ToolIf(lm # None /\ _is_tool_enabled(cfg, "lm_studio_test_connection"),
              "lm_studio_test_connection", <<>>)

list_resources(cfg) ==
    IF cfg.resources_enabled THEN <<"Data Directory">> ELSE <<>>

-----------------------------------------------------------------------------
(* Failures: a raised exception is its type and its str() *)

Raise(type, msg) == [ok |-> FALSE, type |-> type, msg |-> msg]
Return(value) == [ok |-> TRUE, value |-> value]

-----------------------------------------------------------------------------
(* Paths.  A name is a sequence of characters; a location is a sequence  *)
(* of names from "/"; a path argument is what pathlib parses the string  *)
(* into: absolute or not, and its segments, ".." kept as written.        *)

nA == <<"a">>
nAB == <<"a", "b">>
nF == <<"f">>
DotDot == <<".", ".">>

\* FileTools.__init__: Path(".").resolve(); the working directory is /a
base_path == <<nA>>

Rel(segs) == [abs |-> FALSE, segs |-> segs]
Abs(segs) == [abs |-> TRUE, segs |-> segs]

\* the path arguments tried: inside the working directory (plain, nested,
\* through ".."), above it (one in a directory that does not exist),
\* beside it (/ab, whose name starts with "a"), and absolute ones
PathArgs ==
    {Rel(<<>>), Rel(<<nF>>), Rel(<<nAB>>), Rel(<<nAB, nF>>),
     Rel(<<nAB, DotDot, nF>>), Rel(<<DotDot, nA, nF>>),
     Rel(<<DotDot>>), Rel(<<DotDot, nF>>), Rel(<<DotDot, DotDot, nF>>),
     Rel(<<DotDot, nF, nF>>),
     Rel(<<DotDot, nAB>>), Rel(<<DotDot, nAB, nF>>),
     Abs(<<nA, nF>>), Abs(<<nF>>), Abs(<<nAB, nF>>), Abs(<<>>)}

\* the carriage return and the line feed, as characters of a content
CR == "CR"
LF == "LF"

\* file contents: sequences of characters
Contents == {<<"x">>, <<"y", CR>>}

\* self.base_path / file_path: an absolute right operand replaces the left
FullPath(arg) == IF arg.abs THEN arg.segs ELSE base_path \o arg.segs

\* Path.resolve() without symbolic links: ".." pops, "/.." is "/"
RECURSIVE ResolveFrom(_, _)
ResolveFrom(loc, segs) ==
    IF segs = <<>> THEN loc
    ELSE IF Head(segs) = DotDot
         THEN ResolveFrom(IF loc = <<>> THEN <<>>
                          ELSE SubSeq(loc, 1, Len(loc) - 1), Tail(segs))
         ELSE ResolveFrom(Append(loc, Head(segs)), Tail(segs))

Resolve(segs) == ResolveFrom(<<>>, segs)

\* str(path): "/" for the root, else "/" + name for every name
RECURSIVE StrPath(_)
StrPath(loc) ==
    IF loc = <<>> THEN <<"/">>
    ELSE IF Len(loc) = 1 THEN <<"/">> \o loc[1]
         ELSE StrPath(SubSeq(loc, 1, Len(loc) - 1)) \o <<"/">> \o loc[Len(loc)]

\* the guard of every FileTools method:
\*   str(full_path.resolve()).startswith(str(self.base_path.resolve()))
PathAllowed(arg) ==
    IsPrefix(StrPath(Resolve(base_path)), StrPath(Resolve(FullPath(arg))))

PathEscape == Raise("ValueError", <<"Path outside allowed directory">>)

\* the text of a path argument, as the messages quote it
RECURSIVE JoinSegs(_)
JoinSegs(segs) ==
    IF segs = <<>> THEN <<>>
    ELSE IF Len(segs) = 1 THEN segs[1]
         ELSE segs[1] \o <<"/">> \o JoinSegs(Tail(segs))

ArgText(arg) ==
    IF arg.abs THEN <<"/">> \o JoinSegs(arg.segs)
    ELSE IF arg.segs = <<>> THEN <<".">> ELSE JoinSegs(arg.segs)

-----------------------------------------------------------------------------
(* The file system as the operating system walks it *)

DirNode == [type |-> "dir"]
FileNode(c) == [type |-> "file", content |-> c]

IsDirAt(f, loc) == loc \in DOMAIN f /\ f[loc].type = "dir"
IsFileAt(f, loc) == loc \in DOMAIN f /\ f[loc].type = "file"

Parent(loc) == IF loc = <<>> THEN <<>> ELSE SubSeq(loc, 1, Len(loc) - 1)

\* Walk the segments from "/": every step needs the place reached so far
\* to be a directory.  [err, loc]: err is "" | "ENOENT" | "ENOTDIR".
RECURSIVE WalkFrom(_, _, _)
WalkFrom(f, loc, segs) ==
    IF segs = <<>> THEN [err |-> "", loc |-> loc]
    ELSE IF loc \notin DOMAIN f THEN [err |-> "ENOENT", loc |-> loc]
    ELSE IF f[loc].type # "dir" THEN [err |-> "ENOTDIR", loc |-> loc]
    ELSE IF Head(segs) = DotDot THEN WalkFrom(f, Parent(loc), Tail(segs))
    ELSE WalkFrom(f, Append(loc, Head(segs)), Tail(segs))

Walk(f, segs) == WalkFrom(f, <<>>, segs)

\* Path.exists(): stat succeeds (ENOENT and ENOTDIR read as "no")
Exists(f, segs) ==
    LET w == Walk(f, segs) IN w.err = "" /\ w.loc \in DOMAIN f

\* Path.is_dir()
IsDir(f, segs) ==
    LET w == Walk(f, segs) IN w.err = "" /\ IsDirAt(f, w.loc)

-----------------------------------------------------------------------------
(* FileTools: tools/file_tools.py.  Every method gives [res, fs]: what it *)
(* returns or raises, and the file system it leaves.                      *)

Done(res, f) == [res |-> res, fs |-> f]

Init_segs(segs) == SubSeq(segs, 1, Len(segs) - 1)
Last_seg(segs) == segs[Len(segs)]

\* os.mkdir(path): [err, fs], err "" | "ENOENT" | "ENOTDIR" | "EEXIST"
os_mkdir(f, segs) ==
    IF segs = <<>> THEN [err |-> "EEXIST", fs |-> f]
    ELSE LET w == Walk(f, Init_segs(segs)) IN
         IF w.err # "" THEN [err |-> w.err, fs |-> f]
         ELSE IF w.loc \notin DOMAIN f THEN [err |-> "ENOENT", fs |-> f]
         ELSE IF ~IsDirAt(f, w.loc) THEN [err |-> "ENOTDIR", fs |-> f]
         ELSE IF Last_seg(segs) = DotDot THEN [err |-> "EEXIST", fs |-> f]
         ELSE LET target == Append(w.loc, Last_seg(segs)) IN
              IF target \in DOMAIN f THEN [err |-> "EEXIST", fs |-> f]
              ELSE [err |-> "", fs |-> (target :> DirNode) @@ f]

\* Path.mkdir(parents=False, exist_ok=True)
mkdir_one(f, segs) ==
    LET r == os_mkdir(f, segs) IN
    IF r.err = "" THEN [err |-> "", fs |-> r.fs]
    ELSE IF r.err = "ENOENT" THEN [err |-> "ENOENT", fs |-> f]
    ELSE IF IsDir(f, segs) THEN [err |-> "", fs |-> f]
    ELSE [err |-> r.err, fs |-> f]

\* Path.mkdir(parents=True, exist_ok=True): on ENOENT make the (lexical)
\* parent first, then this directory again
RECURSIVE mkdir_parents(_, _)
mkdir_parents(f, segs) ==
    LET r == os_mkdir(f, segs) IN
    IF r.err = "" THEN [err |-> "", fs |-> r.fs]
    ELSE IF r.err = "ENOENT"
         THEN IF segs = <<>> THEN [err |-> "ENOENT", fs |-> f]
              ELSE LET p == mkdir_parents(f, Init_segs(segs)) IN
                   IF p.err # "" THEN p ELSE mkdir_one(p.fs, segs)
    ELSE IF IsDir(f, segs) THEN [err |-> "", fs |-> f]
    ELSE [err |-> r.err, fs |-> f]

OsError(err) ==
    CASE err = "ENOENT" -> Raise("FileNotFoundError", <<"[Errno 2]">>)
      [] err = "ENOTDIR" -> Raise("NotADirectoryError", <<"[Errno 20]">>)
      [] err = "EEXIST" -> Raise("FileExistsError", <<"[Errno 17]">>)
      [] OTHER -> Raise("IsADirectoryError", <<"[Errno 21]">>)

\* open(path, 'w') and f.write(content)
open_write(f, segs, content) ==
    LET w == Walk(f, segs) IN
    IF w.err # "" THEN Done(OsError(w.err), f)
    ELSE IF IsDirAt(f, w.loc) THEN Done(OsError("EISDIR"), f)
    ELSE IF ~IsDirAt(f, Parent(w.loc)) THEN Done(OsError("ENOENT"), f)
    ELSE Done(Return(<<"written">>),
              [l \in DOMAIN f \cup {w.loc} |->
                  IF l = w.loc THEN FileNode(content) ELSE f[l]])

\* f.read() of a file opened with open(path, 'r'): text mode with
\* universal newlines, "\r\n" and "\r" are read as "\n"
RECURSIVE universal_newlines(_)
universal_newlines(content) ==
    IF content = <<>> THEN <<>>
    ELSE IF Head(content) = CR
         THEN IF Len(content) >= 2 /\ content[2] = LF
              THEN <<LF>> \o universal_newlines(Tail(Tail(content)))
              ELSE <<LF>> \o universal_newlines(Tail(content))
    ELSE <<Head(content)>> \o universal_newlines(Tail(content))

read_file(f, arg) ==
    LET full_path == FullPath(arg) IN
    IF ~PathAllowed(arg) THEN Done(PathEscape, f)
    ELSE IF ~Exists(f, full_path)
         THEN Done(Raise("FileNotFoundError",
                         <<"File not found: ">> \o ArgText(arg)), f)
    ELSE LET loc == Walk(f, full_path).loc IN
         IF IsDirAt(f, loc) THEN Done(OsError("EISDIR"), f)
         ELSE Done(Return(universal_newlines(f[loc].content)), f)

\* write_file that creates the parent directories before it looks at the
\* path
write_file_mkdir_first(f, arg, content) ==
    LET full_path == FullPath(arg)
        m == mkdir_parents(f, IF full_path = <<>> THEN <<>>
                              ELSE Init_segs(full_path))
    IN  IF ~PathAllowed(arg) THEN Done(PathEscape, m.fs)
        ELSE IF m.err # "" THEN Done(OsError(m.err), m.fs)
        ELSE LET o == open_write(m.fs, full_path, content) IN
             IF ~o.res.ok THEN o
             ELSE Done(Return(<<"Successfully wrote to ">> \o ArgText(arg)),
                       o.fs)

write_file(f, arg, content) ==
    LET full_path == FullPath(arg) IN
    IF ~PathAllowed(arg) THEN Done(PathEscape, f)
    ELSE LET m == mkdir_parents(f, IF full_path = <<>> THEN <<>>
                                   ELSE Init_segs(full_path)) IN
         IF m.err # "" THEN Done(OsError(m.err), m.fs)
         ELSE LET o == open_write(m.fs, full_path, content) IN
              IF ~o.res.ok THEN o
              ELSE Done(Return(<<"Successfully wrote to ">> \o ArgText(arg)),
                        o.fs)

\* list_files keeping only the directories among the entries of iterdir()
list_files_dirs_only(f, arg) ==
    LET full_path == FullPath(arg) IN
    IF ~PathAllowed(arg) THEN Done(PathEscape, f)
    ELSE IF ~Exists(f, full_path)
         THEN Done(Raise("FileNotFoundError",
                         <<"Directory not found: ">> \o ArgText(arg)), f)
    ELSE IF ~IsDir(f, full_path)
         THEN Done(Raise("ValueError",
                         <<"Path is not a directory: ">> \o ArgText(arg)), f)
    ELSE LET loc == Walk(f, full_path).loc
             items == {l \in DOMAIN f :
                          l # <<>> /\ Parent(l) = loc /\ f[l].type = "dir"}
         IN  IF items # {} /\ ~IsPrefix(base_path, full_path)
             THEN Done(Raise("ValueError", <<"is not in the subpath">>), f)
             ELSE Done(Return(
                     {[name |-> l[Len(l)],
                       path |-> SubSeq(full_path, Len(base_path) + 1,
                                       Len(full_path)) \o <<l[Len(l)]>>,
                       type |-> "directory",
                       size |-> Absent]
                      : l \in items}), f)

\* the entries of iterdir(); their order is the directory's, so a set
\* item.relative_to(self.base_path) compares path parts, ".." unresolved
list_files(f, arg) ==
    LET full_path == FullPath(arg) IN
    IF ~PathAllowed(arg) THEN Done(PathEscape, f)
    ELSE IF ~Exists(f, full_path)
         THEN Done(Raise("FileNotFoundError",
                         <<"Directory not found: ">> \o ArgText(arg)), f)
    ELSE IF ~IsDir(f, full_path)
         THEN Done(Raise("ValueError",
                         <<"Path is not a directory: ">> \o ArgText(arg)), f)
    ELSE LET loc == Walk(f, full_path).loc
             items == {l \in DOMAIN f : l # <<>> /\ Parent(l) = loc}
         IN  IF items # {} /\ ~IsPrefix(base_path, full_path)
             THEN Done(Raise("ValueError", <<"is not in the subpath">>), f)
             ELSE Done(Return(
                     {[name |-> l[Len(l)],
                       path |-> SubSeq(full_path, Len(base_path) + 1,
                                       Len(full_path)) \o <<l[Len(l)]>>,
                       type |-> IF f[l].type = "dir" THEN "directory"
                                ELSE "file",
                       size |-> IF f[l].type = "file"
                                THEN Given(Len(f[l].content)) ELSE Absent]
                      : l \in items}), f)

delete_file(f, arg) ==
    LET full_path == FullPath(arg) IN
    IF ~PathAllowed(arg) THEN Done(PathEscape, f)
    ELSE IF ~Exists(f, full_path)
         THEN Done(Raise("FileNotFoundError",
                         <<"File not found: ">> \o ArgText(arg)), f)
    ELSE LET loc == Walk(f, full_path).loc IN
         IF IsDirAt(f, loc) THEN Done(OsError("EISDIR"), f)
         ELSE Done(Return(<<"Successfully deleted ">> \o ArgText(arg)),
                   [l \in DOMAIN f \ {loc} |-> f[l]])

-----------------------------------------------------------------------------
(* DataTools.process_data: data, operation and the keyword arguments      *)
(* function and field (call_tool passes none).  A JSON text is either     *)
(* malformed or the value it parses to.                                   *)
(*                                                                        *)
(* tools/data_tools.py is not a Python program: at line 89 the condition  *)
(* of the comprehension in _aggregate_data is a conditional expression    *)
(* without parentheses ("if A if C else B"), which the grammar does not   *)
(* allow there, so compiling the file ends in "SyntaxError: invalid       *)
(* syntax" and no DataTools method can ever be called.  The methods are   *)
(* translated below as their text reads (process_data_if_compiled, the    *)
(* condition of line 89 taken as one expression); process_data is what    *)
(* the file does as it is.                                                *)

JInt(n) == [t |-> "int", n |-> n]
JStr(c) == [t |-> "str", c |-> c]
JList(items) == [t |-> "list", items |-> items]
JObj(fields) == [t |-> "obj", fields |-> fields]
JNull == [t |-> "null"]
\* a Python float that is the quotient of two ints
JQuotient(num, den) == [t |-> "float", num |-> num, den |-> den]

Malformed == [json |-> FALSE]
JsonText(v) == [json |-> TRUE, value |-> v]

\* Python's < between two JSON values: numbers with numbers, strings with
\* strings; anything else raises TypeError
Comparable(a, b) == a.t = b.t /\ a.t \in {"int", "str"}

\* ord() of the one-character strings used
Ord(c) == CASE c = "a" -> 97 [] c = "b" -> 98 [] OTHER -> 0

LessThan(a, b) == IF a.t = "int" THEN a.n < b.n ELSE Ord(a.c) < Ord(b.c)

\* sorted() compares neighbours while it inserts; a list of fewer than two
\* items is never compared
AllComparable(items) ==
    \A i \in 1..Len(items) : \A j \in 1..Len(items) :
        i # j => Comparable(items[i], items[j])

RECURSIVE InsertSorted(_, _)
InsertSorted(x, sorted) ==
    IF sorted = <<>> THEN <<x>>
    ELSE IF LessThan(x, Head(sorted)) THEN <<x>> \o sorted
         ELSE <<Head(sorted)>> \o InsertSorted(x, Tail(sorted))

\* stable ascending sort: later equal items go after earlier ones
RECURSIVE SortedSeq(_)
SortedSeq(items) ==
    IF items = <<>> THEN <<>>
    ELSE InsertSorted(items[Len(items)],
                      SortedSeq(SubSeq(items, 1, Len(items) - 1)))

\* _sort_data(data) with key=None, reverse=False
_sort_data(data) ==
    IF data.t = "list"
    THEN IF AllComparable(data.items)
         THEN Return(JList(SortedSeq(data.items)))
         ELSE Raise("TypeError", <<"'<' not supported between instances">>)
    ELSE Return(data)

\* a condition is a text: a sequence of characters
Blank == " "
Quotes == {"'", "\""}

\* s.strip(chars): the characters of the set dropped from both ends
RECURSIVE strip(_, _)
strip(s, chars) ==
    IF s = <<>> THEN s
    ELSE IF Head(s) \in chars THEN strip(Tail(s), chars)
    ELSE IF s[Len(s)] \in chars THEN strip(SubSeq(s, 1, Len(s) - 1), chars)
    ELSE s

\* "==" starts at position i of the text
EqualsAt(s, i) == i < Len(s) /\ s[i] = "=" /\ s[i + 1] = "="

\* "==" in condition
HasEquals(s) == \E i \in 1..Len(s) : EqualsAt(s, i)

\* condition.split("==", 1): around the first "=="
SplitAtEquals(s) ==
    LET i == CHOOSE k \in 1..Len(s) :
                 EqualsAt(s, k) /\ \A j \in 1..(k - 1) : ~EqualsAt(s, j)
    IN  [key |-> SubSeq(s, 1, i - 1), value |-> SubSeq(s, i + 2, Len(s))]

\* str() of the values the items hold
Digits == <<"0", "1", "2", "3", "4", "5", "6", "7", "8", "9">>

StrOf(v) ==
    CASE v.t = "int" -> <<Digits[v.n + 1]>>
      [] v.t = "str" -> <<v.c>>
      [] OTHER -> <<"N", "o", "n", "e">>

\* str(item.get(key, "")): the field names of the objects are one character
GetText(item, key) ==
    IF Len(key) = 1 /\ key[1] \in DOMAIN item.fields
    THEN StrOf(item.fields[key[1]])
    ELSE <<>>

\* _evaluate_condition: a dict against key==value, everything else True
_evaluate_condition(item, condition) ==
    IF item.t = "obj" /\ HasEquals(condition)
    THEN LET kv == SplitAtEquals(condition) IN
         GetText(item, strip(kv.key, {Blank}))
             = strip(strip(kv.value, {Blank}), Quotes)
    ELSE TRUE

RECURSIVE Kept(_, _)
Kept(items, condition) ==
    IF items = <<>> THEN <<>>
    ELSE IF _evaluate_condition(Head(items), condition)
         THEN <<Head(items)>> \o Kept(Tail(items), condition)
         ELSE Kept(Tail(items), condition)

\* _filter_data: a list under a condition that is not "" keeps the items
\* the condition holds for; anything else is returned as it is
_filter_data(data, condition) ==
    IF data.t = "list" /\ condition.set /\ condition.value # <<>>
    THEN Return(JList(Kept(data.items, condition.value)))
    ELSE Return(data)

\* _transform_data (mapping=None) returns the data
_transform_data(data) == Return(data)

\* "if isinstance(data, list) and field": None and "" both count as no field
NoField(field) == ~field.set \/ field.value = ""

\* the condition of the comprehension: a dict must carry a non-null field,
\* anything else must not be null
Counted(item, field) ==
    IF item.t = "obj"
    THEN field \in DOMAIN item.fields /\ item.fields[field] # JNull
    ELSE item # JNull

\* item.get(field) if isinstance(item, dict) else item
ValueOf(item, field) == IF item.t = "obj" THEN item.fields[field] ELSE item

RECURSIVE ValuesOf(_, _)
ValuesOf(items, field) ==
    IF items = <<>> THEN <<>>
    ELSE IF Counted(Head(items), field)
         THEN <<ValueOf(Head(items), field)>> \o ValuesOf(Tail(items), field)
         ELSE ValuesOf(Tail(items), field)

AllNumbers(values) == \A i \in 1..Len(values) : values[i].t = "int"

RECURSIVE SumOf(_)
SumOf(values) ==
    IF values = <<>> THEN 0 ELSE Head(values).n + SumOf(Tail(values))

NotSupported == Raise("TypeError", <<"'<' not supported between instances">>)

\* min(values) and max(values): the first of the smallest, of the largest
MinOf(values) ==
    IF AllComparable(values) THEN Return(SortedSeq(values)[1])
    ELSE NotSupported

MaxOf(values) ==
    IF AllComparable(values) THEN Return(SortedSeq(values)[Len(values)])
    ELSE NotSupported

\* _aggregate_data(data, function="sum", field=None); a Python value that
\* is no JSON value is given as such (None is JNull)
_aggregate_data(data, function, field) ==
    IF data.t = "list" /\ ~NoField(field)
    THEN LET values == ValuesOf(data.items, field.value) IN
         CASE function = "sum" ->
                Return(IF AllNumbers(values) THEN JInt(SumOf(values))
                       ELSE JNull)
           [] function = "avg" ->
                Return(IF values # <<>> /\ AllNumbers(values)
                       THEN JQuotient(SumOf(values), Len(values))
                       ELSE JNull)
           [] function = "count" -> Return(JInt(Len(values)))
           [] function = "min" ->
                IF values # <<>> THEN MinOf(values) ELSE Return(JNull)
           [] function = "max" ->
                IF values # <<>> THEN MaxOf(values) ELSE Return(JNull)
           [] OTHER -> Return(data)
    ELSE Return(data)

\* **kwargs: the keyword arguments function and field, each given or not
NoKwargs == [function |-> Absent, field |-> Absent, condition |-> Absent]

\* the method as its text reads, were the file compiled
process_data_if_compiled(data, operation, kwargs) ==
    IF ~data.json
    THEN Raise("ValueError", <<"Invalid JSON data: ", "Expecting value">>)
    ELSE CASE operation = "filter" ->
                _filter_data(data.value, kwargs.condition)
           [] operation = "sort" -> _sort_data(data.value)
           [] operation = "transform" -> _transform_data(data.value)
           [] operation = "aggregate" ->
                _aggregate_data(data.value,
                                IF kwargs.function.set
                                THEN kwargs.function.value ELSE "sum",
                                kwargs.field)
           [] OTHER -> Raise("ValueError", <<"Unknown operation: ", operation>>)

\* compiling data_tools.py: SyntaxError at line 89
DataToolsSyntaxError ==
    Raise("SyntaxError", <<"invalid syntax (data_tools.py, line 89)">>)

\* every use of DataTools ends in that failure, whatever is asked; the
\* dispatcher is modelled as meeting it where it uses the backend
process_data(data, operation, kwargs) == DataToolsSyntaxError

-----------------------------------------------------------------------------
(* HTTP: what a request can come back as *)

ConnectError == [kind |-> "connect_error"]
Timeout == [kind |-> "timeout"]
Http(status, body) == [kind |-> "http", status |-> status, body |-> body]

NotJson == [json |-> FALSE]

\* response.raise_for_status() passes 2xx only
IsSuccess(status) == status \in 200..299

ModelIds == {"m1", "m2"}
ModelLists == SeqsUpTo(ModelIds, MaxModels)

\* GET /v1/models: {"data": [{"id": ...}, ...]}, an object without "data",
\* or a body that is not JSON
ModelsBodies ==
    {NotJson, [json |-> TRUE, data |-> Absent]}
    \cup {[json |-> TRUE, data |-> Given(l)] : l \in ModelLists}

Choice == [text |-> <<"hello">>, message |-> <<"hi there">>,
           finish_reason |-> "stop"]

\* POST /v1/completions and /v1/chat/completions:
\* {"choices": [...], "usage": {"total_tokens": n}}, keys may be missing
CompletionBodies ==
    {NotJson}
    \cup [json : {TRUE},
          choices : {Absent, Given(<<>>), Given(<<Choice>>)},
          usage : {Absent, Given("12")}]

StatusCodes == {200, 500}

Failures == {ConnectError, Timeout}

ModelsResponses ==
    Failures \cup {Http(st, b) : st \in StatusCodes, b \in ModelsBodies}

CompletionResponses ==
    Failures \cup {Http(200, b) : b \in CompletionBodies}
    \cup {Http(500, NotJson)}

ApiBodies == {NotJson, [json |-> TRUE, data |-> Absent]}

ApiResponses ==
    Failures \cup {Http(st, b) : st \in StatusCodes, b \in ApiBodies}

-----------------------------------------------------------------------------
(* LMStudioTools: tools/lm_studio_tools.py.  An operation runs to its next *)
(* await and stops there (Await) or ends (Finish); Resume takes it on from *)
(* the response to the request it waits for.                               *)

Await(request, ctx) == [pc |-> "await", request |-> request, ctx |-> ctx]
Finish(res) == [pc |-> "done", res |-> res]

GenerateMaxTokens == 100
ChatMaxTokens == 500
\* temperature 0.7, in tenths
DefaultTemperature == 7

GetModels(lm) ==
    [method |-> "GET", url |-> lm.base_url \o <<"/v1/models">>]

PostCompletion(lm, model, prompt) ==
    [method |-> "POST", url |-> lm.base_url \o <<"/v1/completions">>,
     model |-> model, payload |-> prompt,
     max_tokens |-> GenerateMaxTokens, temperature |-> DefaultTemperature]

PostChat(lm, model, messages) ==
    [method |-> "POST", url |-> lm.base_url \o <<"/v1/chat/completions">>,
     model |-> model, payload |-> messages,
     max_tokens |-> ChatMaxTokens, temperature |-> DefaultTemperature]

\* "if not model": None and "" both count as no model
NoModel(model) == ~model.set \/ model.value = ""

CannotConnectAt(lm) ==
    Raise("Exception",
          <<"Cannot connect to LM Studio at ">> \o lm.base_url
          \o <<". Make sure LM Studio is running with the local server enabled.">>)

CannotConnect ==
    Raise("Exception",
          <<"Cannot connect to LM Studio. Make sure it's running.">>)

NoModelsAvailable == Raise("Exception", <<"No models available in LM Studio">>)

\* str(status_code) of the status codes modelled
StatusText(status) == IF status = 200 THEN "200" ELSE "500"

ApiError(status) ==
    Raise("Exception", <<"LM Studio API error: ", StatusText(status)>>)

\* exceptions the methods let through as they are
TimedOut == Raise("ReadTimeout", <<"timed out">>)
JsonDecodeError == Raise("JSONDecodeError", <<"Expecting value">>)
HttpStatusError(status) ==
    Raise("HTTPStatusError", <<"Server error for url: ", StatusText(status)>>)
IndexError == Raise("IndexError", <<"list index out of range">>)

\* generate_text and chat_completion, up to the first request
generate_text(lm, prompt, model) ==
    IF NoModel(model)
    THEN Await(GetModels(lm),
               [op |-> "generate_text", stage |-> "models", payload |-> prompt])
    ELSE Await(PostCompletion(lm, model.value, prompt),
               [op |-> "generate_text", stage |-> "post",
                model |-> model.value])

chat_completion(lm, messages, model) ==
    IF NoModel(model)
    THEN Await(GetModels(lm),
               [op |-> "chat_completion", stage |-> "models",
                payload |-> messages])
    ELSE Await(PostChat(lm, model.value, messages),
               [op |-> "chat_completion", stage |-> "post",
                model |-> model.value])

list_models(lm) == Await(GetModels(lm), [op |-> "list_models"])

test_connection(lm) == Await(GetModels(lm), [op |-> "test_connection"])

\* the model resolved once and kept: a later call with no model reuses the
\* one an earlier call resolved
ResumeModels_cached(lm, ctx, resp) ==
    IF resp.kind = "connect_error" THEN Finish(CannotConnectAt(lm))
    ELSE IF resp.kind = "timeout" THEN Finish(TimedOut)
    ELSE IF ~resp.body.json THEN Finish(JsonDecodeError)
    ELSE IF resp.body.data.set /\ Len(resp.body.data.value) > 0
         THEN LET model == IF prev.model.set THEN prev.model.value
                           ELSE resp.body.data.value[1] IN
              IF ctx.op = "generate_text"
              THEN Await(PostCompletion(lm, model, ctx.payload),
                         [op |-> ctx.op, stage |-> "post", model |-> model])
              ELSE Await(PostChat(lm, model, ctx.payload),
                         [op |-> ctx.op, stage |-> "post", model |-> model])
         ELSE Finish(NoModelsAvailable)

\* the default model taken from the end of the list, data[-1]["id"]
ResumeModels_last(lm, ctx, resp) ==
    IF resp.kind = "connect_error" THEN Finish(CannotConnectAt(lm))
    ELSE IF resp.kind = "timeout" THEN Finish(TimedOut)
    ELSE IF ~resp.body.json THEN Finish(JsonDecodeError)
    ELSE IF resp.body.data.set /\ Len(resp.body.data.value) > 0
         THEN LET model == resp.body.data.value[Len(resp.body.data.value)] IN
              IF ctx.op = "generate_text"
              THEN Await(PostCompletion(lm, model, ctx.payload),
                         [op |-> ctx.op, stage |-> "post", model |-> model])
              ELSE Await(PostChat(lm, model, ctx.payload),
                         [op |-> ctx.op, stage |-> "post", model |-> model])
         ELSE Finish(NoModelsAvailable)

\* the model list came back: models_response.json() (the status is not
\* looked at), then the first id or "No models available"
ResumeModels(lm, ctx, resp) ==
    IF resp.kind = "connect_error" THEN Finish(CannotConnectAt(lm))
    ELSE IF resp.kind = "timeout" THEN Finish(TimedOut)
    ELSE IF ~resp.body.json THEN Finish(JsonDecodeError)
    ELSE IF resp.body.data.set /\ Len(resp.body.data.value) > 0
         THEN LET model == resp.body.data.value[1] IN
              IF ctx.op = "generate_text"
              THEN Await(PostCompletion(lm, model, ctx.payload),
                         [op |-> ctx.op, stage |-> "post", model |-> model])
              ELSE Await(PostChat(lm, model, ctx.payload),
                         [op |-> ctx.op, stage |-> "post", model |-> model])
         ELSE Finish(NoModelsAvailable)

FirstChoice(body) ==
    IF body.choices.set THEN body.choices.value[1]
    ELSE [text |-> <<>>, message |-> <<>>, finish_reason |-> ""]

\* the completion came back: raise_for_status(), json(), first choice;
\* only generate_text turns HTTPStatusError into "LM Studio API error"
ResumePost(lm, ctx, resp) ==
    IF resp.kind = "connect_error" THEN Finish(CannotConnectAt(lm))
    ELSE IF resp.kind = "timeout" THEN Finish(TimedOut)
    ELSE IF ~IsSuccess(resp.status)
         THEN IF ctx.op = "generate_text" THEN Finish(ApiError(resp.status))
              ELSE Finish(HttpStatusError(resp.status))
    ELSE IF ~resp.body.json THEN Finish(JsonDecodeError)
    ELSE IF resp.body.choices.set /\ resp.body.choices.value = <<>>
         THEN Finish(IndexError)
    ELSE IF ctx.op = "generate_text"
         THEN Finish(Return([text |-> FirstChoice(resp.body).text,
                             model |-> ctx.model,
                             usage |-> resp.body.usage,
                             finish_reason |->
                                 FirstChoice(resp.body).finish_reason]))
         ELSE Finish(Return([message |-> FirstChoice(resp.body).message,
                             model |-> ctx.model,
                             usage |-> resp.body.usage,
                             finish_reason |->
                                 FirstChoice(resp.body).finish_reason]))

\* list_models without its except httpx.ConnectError clause: the
\* transport's own exception goes on
ResumeListModels_untranslated(resp) ==
    IF resp.kind = "connect_error"
    THEN Finish(Raise("ConnectError", <<"All connection attempts failed">>))
    ELSE IF resp.kind = "timeout" THEN Finish(TimedOut)
    ELSE IF ~IsSuccess(resp.status) THEN Finish(HttpStatusError(resp.status))
    ELSE IF ~resp.body.json THEN Finish(JsonDecodeError)
    ELSE Finish(Return(IF resp.body.data.set THEN resp.body.data.value
                       ELSE <<>>))

\* list_models after its GET: raise_for_status(), json(), .get("data", [])
ResumeListModels(resp) ==
    IF resp.kind = "connect_error" THEN Finish(CannotConnect)
    ELSE IF resp.kind = "timeout" THEN Finish(TimedOut)
    ELSE IF ~IsSuccess(resp.status) THEN Finish(HttpStatusError(resp.status))
    ELSE IF ~resp.body.json THEN Finish(JsonDecodeError)
    ELSE Finish(Return(IF resp.body.data.set THEN resp.body.data.value
                       ELSE <<>>))

\* test_connection without its try/except: what list_models raises goes on
ResumeTestConnection_uncaught(lm, resp) ==
    LET models == ResumeListModels(resp).res IN
    IF models.ok
    THEN Finish(Return([status |-> "connected", url |-> lm.base_url,
                        models_count |-> Len(models.value),
                        models |-> models.value]))
    ELSE Finish(models)

\* test_connection: list_models inside try/except Exception
ResumeTestConnection(lm, resp) ==
    LET models == ResumeListModels(resp).res IN
    IF models.ok
    THEN Finish(Return([status |-> "connected", url |-> lm.base_url,
                        models_count |-> Len(models.value),
                        models |-> models.value]))
    ELSE Finish(Return([status |-> "disconnected", url |-> lm.base_url,
                        error |-> models.msg]))

Resume(lm, ctx, resp) ==
    CASE ctx.op = "list_models" -> ResumeListModels(resp)
      [] ctx.op = "test_connection" -> ResumeTestConnection(lm, resp)
      [] ctx.stage = "models" -> ResumeModels(lm, ctx, resp)
      [] OTHER -> ResumePost(lm, ctx, resp)

-----------------------------------------------------------------------------
(* APITools.call_api: tools/api_tools.py (no headers, no body given) *)

\* method.upper() on the methods modelled
Upper(method) == IF method = "delete" THEN "DELETE" ELSE method

call_api(url, method) ==
    Await([method |-> Upper(method), url |-> url],
          [op |-> "call_api", url |-> url])

\* call_api with its except httpx.RequestError clause ahead of the one for
\* httpx.TimeoutException, which is a RequestError too
ResumeCallApi_request_error_first(ctx, resp) ==
    IF resp.kind \in {"timeout", "connect_error"}
    THEN Finish(Raise("Exception", <<"Request failed: ", "connect failed">>))
    ELSE Finish(Return([status_code |-> resp.status,
                        data |-> IF resp.body.json THEN "parsed" ELSE "text"]))

\* response.json(), or response.text when that fails; any status is a result
ResumeCallApi(ctx, resp) ==
    IF resp.kind = "timeout"
    THEN Finish(Raise("Exception", <<"Request to ">> \o ctx.url
                                   \o <<" timed out">>))
    ELSE IF resp.kind = "connect_error"
    THEN Finish(Raise("Exception", <<"Request failed: ", "connect failed">>))
    ELSE Finish(Return([status_code |-> resp.status,
                        data |-> IF resp.body.json THEN "parsed" ELSE "text"]))

-----------------------------------------------------------------------------
(* call_tool: mcp_server.py.  The try body routes by name; the except     *)
(* clause turns everything raised into the error entry.                   *)

NotADict == [dict |-> FALSE]
Dict(kv) == [dict |-> TRUE, kv |-> kv]
NoArgs == Dict(<<>>)

HasKey(args, k) == args.dict /\ k \in DOMAIN args.kv

\* arguments[k]: TypeError on None, KeyError on a missing key
SubscriptError(args, k) ==
    IF ~args.dict
    THEN Raise("TypeError", <<"'NoneType' object is not subscriptable">>)
    ELSE Raise("KeyError", <<"'", k, "'">>)

\* arguments.get(k): AttributeError on None, else the value or the default
GetError ==
    Raise("AttributeError", <<"'NoneType' object has no attribute 'get'">>)

GetOr(args, k, default) ==
    IF k \in DOMAIN args.kv THEN args.kv[k] ELSE default

Optional(args, k) ==
    IF k \in DOMAIN args.kv THEN Given(args.kv[k]) ELSE Absent

\* what the try body comes to before its first await or its return:
\* the backend operations called so far, the step reached, the files left
Routed(ops, step, f) == [routed |-> ops, step |-> step, fs |-> f]

Sync(op, done) == Routed(<<op>>, Finish(done.res), done.fs)

Route(name, args, lm, f) ==
    CASE name = "read_file" ->
            IF ~HasKey(args, "path")
            THEN Routed(<<>>, Finish(SubscriptError(args, "path")), f)
            ELSE Sync("FileTools.read_file", read_file(f, args.kv["path"]))
      [] name = "write_file" ->
            IF ~HasKey(args, "path")
            THEN Routed(<<>>, Finish(SubscriptError(args, "path")), f)
            ELSE IF ~HasKey(args, "content")
            THEN Routed(<<>>, Finish(SubscriptError(args, "content")), f)
            ELSE Sync("FileTools.write_file",
                      write_file(f, args.kv["path"], args.kv["content"]))
      [] name = "list_files" ->
            IF ~HasKey(args, "directory")
            THEN Routed(<<>>, Finish(SubscriptError(args, "directory")), f)
            ELSE Sync("FileTools.list_files",
                      list_files(f, args.kv["directory"]))
      [] name = "call_api" ->
            IF ~HasKey(args, "url")
            THEN Routed(<<>>, Finish(SubscriptError(args, "url")), f)
            ELSE Routed(<<"APITools.call_api">>,
                        call_api(args.kv["url"], GetOr(args, "method", "GET")),
                        f)
      [] name = "process_data" ->
            IF ~HasKey(args, "data")
            THEN Routed(<<>>, Finish(SubscriptError(args, "data")), f)
            ELSE IF ~HasKey(args, "operation")
            THEN Routed(<<>>, Finish(SubscriptError(args, "operation")), f)
            ELSE Routed(<<"DataTools.process_data">>,
                        Finish(process_data(args.kv["data"],
                                            args.kv["operation"], NoKwargs)),
                        f)
      [] name = "lm_studio_generate" /\ lm # None ->
            IF ~HasKey(args, "prompt")
            THEN Routed(<<>>, Finish(SubscriptError(args, "prompt")), f)
            ELSE Routed(<<"LMStudioTools.generate_text">>,
                        generate_text(lm, args.kv["prompt"],
                                      Optional(args, "model")), f)
      [] name = "lm_studio_chat" /\ lm # None ->
            IF ~HasKey(args, "messages")
            THEN Routed(<<>>, Finish(SubscriptError(args, "messages")), f)
            ELSE Routed(<<"LMStudioTools.chat_completion">>,
                        chat_completion(lm, args.kv["messages"],
                                        Optional(args, "model")), f)
      [] name = "lm_studio_list_models" /\ lm # None ->
            Routed(<<"LMStudioTools.list_models">>, list_models(lm), f)
      [] name = "lm_studio_test_connection" /\ lm # None ->
            Routed(<<"LMStudioTools.test_connection">>, test_connection(lm), f)
      [] OTHER ->
            Routed(<<>>, Finish(Raise("ValueError",
                                      <<"Unknown tool: ", name>>)), f)

JsonDumps(v) == <<"json", v>>

TokensUsed(usage) == IF usage.set THEN usage.value ELSE "N/A"

\* the return statement of each branch
SuccessText(name, result) ==
    CASE name = "read_file" -> result
      [] name = "write_file" -> <<"File written successfully: ">> \o result
      [] name = "lm_studio_generate" ->
            <<"Generated text:\n">> \o result.text
            \o <<"\n\nModel: ", result.model, "\nTokens used: ",
                 TokensUsed(result.usage)>>
      [] name = "lm_studio_chat" ->
            <<"Assistant: ">> \o result.message
            \o <<"\n\nModel: ", result.model>>
      [] name = "lm_studio_list_models" ->
            <<"Available models in LM Studio:\n", JsonDumps(result)>>
      [] OTHER -> JsonDumps(result)

\* the except clause's entry without its isError flag
ErrorEnvelope_unflagged(failure) ==
    <<[text |-> <<"Error: ">> \o failure.msg]>>

\* except Exception as e: return [{"text": f"Error: {str(e)}", "isError": True}]
ErrorEnvelope(failure) ==
    <<[text |-> <<"Error: ">> \o failure.msg, isError |-> TRUE]>>

\* an except clause that catches ValueError only: anything else leaves
\* call_tool as an exception
call_tool_exit_value_error_only(name, res) ==
    IF res.ok
    THEN [outcome |-> "returned",
          envelope |-> <<[text |-> SuccessText(name, res.value)]>>]
    ELSE IF res.type = "ValueError"
         THEN [outcome |-> "returned",
               envelope |-> <<[text |-> <<"Error: ">> \o res.msg,
                               isError |-> TRUE]>>]
         ELSE [outcome |-> "raised", envelope |-> <<>>]

\* how an invocation ends: the branch's return [{"text": ...}], or the
\* except clause's entry for whatever was raised in the try body
call_tool_exit(name, res) ==
    IF res.ok
    THEN [outcome |-> "returned",
          envelope |-> <<[text |-> SuccessText(name, res.value)]>>]
    ELSE [outcome |-> "returned", envelope |-> ErrorEnvelope(res)]

-----------------------------------------------------------------------------
(* Direct calls of FileTools, as tests/test_mcp_server.py makes them *)

FileOps == {"read_file", "write_file", "list_files", "delete_file"}

FileToolsOp(f, op, arg, content) ==
    CASE op = "read_file" -> read_file(f, arg)
      [] op = "write_file" -> write_file(f, arg, content)
      [] op = "list_files" -> list_files(f, arg)
      [] OTHER -> delete_file(f, arg)

\* the working directory /a and its sibling /ab, which holds a file
BaseFs ==
    (<<>> :> DirNode) @@ (<<nA>> :> DirNode) @@ (<<nAB>> :> DirNode)
    @@ (<<nAB, nF>> :> FileNode(<<"x">>))

InitialFs == {BaseFs, (<<nA, nF>> :> FileNode(<<"x">>)) @@ BaseFs}

\* what the caller has written and not deleted since: location |-> content
NothingWritten == [l \in {} |-> <<>>]

WrittenBefore == IF fcall.called THEN fcall.value.written ELSE NothingWritten

WrittenAfter(before, f, op, arg, content, r) ==
    IF ~r.res.ok \/ op \in {"read_file", "list_files"} THEN before
    ELSE IF op = "write_file"
         THEN LET loc == Walk(r.fs, FullPath(arg)).loc IN
              [l \in DOMAIN before \cup {loc} |->
                  IF l = loc THEN content ELSE before[l]]
    ELSE LET loc == Walk(f, FullPath(arg)).loc IN
         [l \in DOMAIN before \ {loc} |-> before[l]]

FileToolsCall(op, arg, content) ==
    LET r == FileToolsOp(fs, op, arg, content) IN
    /\ Cardinality(DOMAIN r.fs) <= MaxNodes
    /\ fs' = r.fs
    /\ fcall' = Returned([op |-> op, arg |-> arg, content |-> content,
                          res |-> r.res,
                          written |-> WrittenAfter(WrittenBefore, fs, op, arg,
                                                   content, r)])
    /\ UNCHANGED <<vcall, clients, environ, dcall, prev, configFile, started, config, lm_studio, listed_tools,
                   listed_resources, inv>>

NoInvocation == [pc |-> "idle"]

\* httpx.AsyncClient(...) objects a backend has created, and how many
\* times aclose() ran on them
NoClient == [created |-> 0, closed |-> 0]
NewClient == [created |-> 1, closed |-> 0]
NoClients == [api |-> NoClient, lm |-> NoClient]

\* nothing seen yet: no model resolved by a call, no call that failed
NoHistory == [model |-> Absent, failed |-> FALSE]

\* the invocation record: what was asked, the backend operations called,
\* the requests sent and the responses received, where it waits, what the
\* backend gave, how it ended
Invocation(name, args, r, requests_before, responses) ==
    IF r.step.pc = "await"
    THEN [pc |-> "await", name |-> name, arguments |-> args,
          routed |-> r.routed,
          requests |-> Append(requests_before, r.step.request),
          responses |-> responses,
          ctx |-> r.step.ctx, backend |-> Absent,
          outcome |-> "pending", envelope |-> <<>>]
    ELSE LET exit == call_tool_exit(name, r.step.res) IN
         [pc |-> "done", name |-> name, arguments |-> args,
          routed |-> r.routed, requests |-> requests_before,
          responses |-> responses,
          ctx |-> None,
          backend |-> IF r.routed = <<>> THEN Absent ELSE Given(r.step.res),
          outcome |-> exit.outcome, envelope |-> exit.envelope]

ResponsesFor(ctx) ==
    IF ctx.op = "call_api" THEN ApiResponses
    ELSE IF ctx.op \in {"list_models", "test_connection"} THEN ModelsResponses
    ELSE IF ctx.stage = "models" THEN ModelsResponses
    ELSE CompletionResponses

ResumeBackend(lm, ctx, resp) ==
    IF ctx.op = "call_api" THEN ResumeCallApi(ctx, resp)
    ELSE Resume(lm, ctx, resp)

\* a client calls call_tool(name, arguments): the handler runs to its first
\* await, or to its return
CallTool(name, args) ==
    /\ started = "ok"
    /\ inv.pc # "await"
    /\ LET r == Route(name, args, lm_studio, fs) IN
       /\ Cardinality(DOMAIN r.fs) <= MaxNodes
       /\ fs' = r.fs
       /\ inv' = Invocation(name, args, r, <<>>, <<>>)
    /\ UNCHANGED <<vcall, clients, environ, dcall, prev, configFile, started, config, lm_studio, listed_tools,
                   listed_resources, fcall>>

\* the awaited request completes and the handler runs on
Respond(resp) ==
    /\ inv.pc = "await"
    /\ resp \in ResponsesFor(inv.ctx)
    /\ LET step == ResumeBackend(lm_studio, inv.ctx, resp) IN
       inv' = Invocation(inv.name, inv.arguments,
                         Routed(inv.routed, step, fs), inv.requests,
                         Append(inv.responses, resp))
    /\ UNCHANGED <<vcall, clients, environ, dcall, prev, configFile, started, config, lm_studio, listed_tools,
                   listed_resources, fs, fcall>>

InitFiles ==
    /\ configFile = ConfigFileOf("absent", EmptyConfig)
    /\ started = "no"
    /\ config = None
    /\ lm_studio = None
    /\ listed_tools = NotCalled
    /\ listed_resources = NotCalled
    /\ fs \in InitialFs
    /\ fcall = NotCalled
    /\ inv = NoInvocation
    /\ dcall = NotCalled
    /\ prev = NoHistory
    /\ vcall = NotCalled
    /\ clients = NoClients
    /\ environ = Absent

NextFiles ==
    \E op \in FileOps, arg \in PathArgs, content \in Contents :
        /\ (op # "write_file" => content = <<"x">>)
        /\ FileToolsCall(op, arg, content)

SpecFiles == InitFiles /\ [][NextFiles]_vars

-----------------------------------------------------------------------------
(* Direct calls of DataTools.process_data, as tests/test_mcp_server.py    *)
(* makes them: a JSON text is chosen, then operations are applied to it   *)

\* the items of the lists: numbers, strings, null, and objects that carry
\* the field v as a number, as a string, as null, or not at all
DataItems ==
    {JInt(1), JInt(2), JStr("a"), JStr("b"), JNull,
     JObj([v |-> JInt(1)]), JObj([v |-> JInt(2)]), JObj([w |-> JInt(1)]),
     JObj([v |-> JStr("a")]), JObj([v |-> JNull])}

DataInputs ==
    {Malformed, JsonText(JInt(1))}
    \cup {JsonText(JList(l)) : l \in SeqsUpTo(DataItems, MaxItems)}

Functions == {"sum", "avg", "count", "min", "max", "median"}

\* the conditions tried: v==1, v == 'a', w== (nothing after it), v (no
\* "==" in it) and the empty text
Conditions ==
    {<<"v", "=", "=", "1">>,
     <<"v", Blank, "=", "=", Blank, "'", "a", "'">>,
     <<"w", "=", "=">>,
     <<"v">>,
     <<>>}

DataCalls ==
    {[operation |-> o, kwargs |-> NoKwargs] :
        o \in {"filter", "sort", "transform", "aggregate", "reverse"}}
    \cup {[operation |-> "aggregate",
           kwargs |-> [function |-> Given(fn), field |-> fd,
                       condition |-> Absent]] :
            fn \in Functions, fd \in {Absent, Given("v")}}
    \cup {[operation |-> "filter",
           kwargs |-> [function |-> Absent, field |-> Absent,
                       condition |-> Given(c)]] : c \in Conditions}

\* the text the test holds before it calls
DataGiven(data) == [called |-> FALSE, data |-> data]

ProcessData(call) ==
    /\ dcall' = [called |-> TRUE, data |-> dcall.data,
                 operation |-> call.operation, kwargs |-> call.kwargs,
                 res |-> process_data(dcall.data, call.operation,
                                      call.kwargs)]
    /\ UNCHANGED <<vcall, clients, environ, prev, configFile, started, config, lm_studio,
                   listed_tools, listed_resources, fs, fcall, inv>>

InitData ==
    /\ configFile = ConfigFileOf("absent", EmptyConfig)
    /\ started = "no"
    /\ config = None
    /\ lm_studio = None
    /\ listed_tools = NotCalled
    /\ listed_resources = NotCalled
    /\ fs = BaseFs
    /\ fcall = NotCalled
    /\ inv = NoInvocation
    /\ dcall \in {DataGiven(d) : d \in DataInputs}
    /\ prev = NoHistory
    /\ vcall = NotCalled
    /\ clients = NoClients
    /\ environ = Absent

NextData == \E call \in DataCalls : ProcessData(call)

SpecData == InitData /\ [][NextData]_vars

-----------------------------------------------------------------------------
(* utils/helpers.py: validate_tool_input(tool_name, arguments, schema).   *)
(* A schema is what the code reads of it: the list under its top-level    *)
(* "required" key, and what schema["properties"] holds under "required".  *)

FieldNames == {"path", "content", "directory"}

Schemas ==
    [required : {Absent} \cup {Given(l) : l \in SeqsUpTo(FieldNames,
                                                         MaxRequired)},
     properties_required :
         {Absent, Given(<<>>), Given(<<"path">>)}]

\* required = schema.get("properties", {}).get("required", []), then False
\* at the first name of it that is not in arguments, else True
validate_tool_input(arguments, schema) ==
    LET required == IF schema.properties_required.set
                    THEN schema.properties_required.value ELSE <<>>
    IN  \A i \in 1..Len(required) : required[i] \in arguments

ValidateGiven(arguments, schema) ==
    [called |-> FALSE, arguments |-> arguments, schema |-> schema]

Validate ==
    /\ ~vcall.called
    /\ vcall' = [called |-> TRUE, arguments |-> vcall.arguments,
                 schema |-> vcall.schema,
                 res |-> validate_tool_input(vcall.arguments, vcall.schema)]
    /\ UNCHANGED <<clients, environ, dcall, prev, configFile, started, config,
                   lm_studio, listed_tools, listed_resources, fs, fcall, inv>>

InitValidate ==
    /\ configFile = ConfigFileOf("absent", EmptyConfig)
    /\ started = "no"
    /\ config = None
    /\ environ = Absent
    /\ lm_studio = None
    /\ clients = NoClients
    /\ listed_tools = NotCalled
    /\ listed_resources = NotCalled
    /\ fs = BaseFs
    /\ fcall = NotCalled
    /\ inv = NoInvocation
    /\ dcall = NotCalled
    /\ prev = NoHistory
    /\ vcall \in {ValidateGiven(a, sch) :
                     a \in SUBSET FieldNames, sch \in Schemas}

NextValidate == Validate

SpecValidate == InitValidate /\ [][NextValidate]_vars

-----------------------------------------------------------------------------
(* The server: MCPServerImpl.__init__, list_tools, list_resources *)

ConfigFiles ==
    {ConfigFileOf(k, EmptyConfig) : k \in FileKinds \ {"object"}}
    \cup {ConfigFileOf("object", o) : o \in ConfigObjects}

\* self.config = load_config(config_path) if config_path else {}
ConfigOf(file) ==
    IF file.kind = "no_path" THEN EmptyConfig ELSE load_config(file)

IsDict(cfg) == "not_a_dict" \notin DOMAIN cfg

\* the clients __init__ has created when it ends: APITools() comes before
\* the configuration is looked at, LMStudioTools(...) after
ClientsBuilt(cfg) ==
    [api |-> NewClient,
     lm |-> IF IsDict(cfg) /\ cfg.lm_enabled THEN NewClient ELSE NoClient]

\* __init__: the backends are built, then self.config.get("lm_studio", {})
\* raises AttributeError when the JSON document is not an object
Construct ==
    /\ started = "no"
    /\ LET cfg == ConfigOf(configFile) IN
       /\ config' = cfg
       /\ IF IsDict(cfg)
          THEN started' = "ok" /\ lm_studio' = InitLmStudio(cfg, environ)
          ELSE started' = "failed" /\ lm_studio' = None
       /\ clients' = ClientsBuilt(cfg)
    /\ UNCHANGED <<vcall, environ, dcall, prev, configFile, listed_tools,
                   listed_resources, fs, fcall, inv>>

ListTools ==
    /\ started = "ok"
    /\ listed_tools' = Returned(list_tools(config, lm_studio))
    /\ UNCHANGED <<vcall, clients, environ, dcall, prev, configFile, started, config, lm_studio, listed_resources,
                   fs, fcall, inv>>

ListResources ==
    /\ started = "ok"
    /\ listed_resources' = Returned(list_resources(config))
    /\ UNCHANGED <<vcall, clients, environ, dcall, prev, configFile, started, config, lm_studio, listed_tools,
                   fs, fcall, inv>>

InitRegistry ==
    /\ configFile \in ConfigFiles
    /\ started = "no"
    /\ config = None
    /\ lm_studio = None
    /\ listed_tools = NotCalled
    /\ listed_resources = NotCalled
    /\ fs = BaseFs
    /\ fcall = NotCalled
    /\ inv = NoInvocation
    /\ dcall = NotCalled
    /\ prev = NoHistory
    /\ vcall = NotCalled
    /\ clients = NoClients
    /\ environ \in Environments

NextRegistry == Construct \/ ListTools \/ ListResources

SpecRegistry == InitRegistry /\ [][NextRegistry]_vars

-----------------------------------------------------------------------------
(* main(): the server is built, asyncio.run(server.run()) serves until    *)
(* the streams end or something is raised, and the process is over.       *)
(* Neither run nor main calls APITools.close or LMStudioTools.close.      *)

\* asyncio.run(server.run()) is entered
RunServer ==
    /\ started = "ok"
    /\ started' = "running"
    /\ UNCHANGED <<vcall, clients, environ, dcall, prev, configFile, config,
                   lm_studio, listed_tools, listed_resources, fs, fcall, inv>>

\* self.server.run(...) returns: the client went away
RunReturns ==
    /\ started = "running"
    /\ started' = "ended"
    /\ UNCHANGED <<vcall, clients, environ, dcall, prev, configFile, config,
                   lm_studio, listed_tools, listed_resources, fs, fcall, inv>>

\* self.server.run(...) raises; nothing in run or main catches it
RunRaises ==
    /\ started = "running"
    /\ started' = "crashed"
    /\ UNCHANGED <<vcall, clients, environ, dcall, prev, configFile, config,
                   lm_studio, listed_tools, listed_resources, fs, fcall, inv>>

NextLifecycle == Construct \/ RunServer \/ RunReturns \/ RunRaises

SpecLifecycle == InitRegistry /\ [][NextLifecycle]_vars

-----------------------------------------------------------------------------
(* The dispatcher under four configurations and the argument bags tried  *)

AllNames ==
    <<"read_file", "write_file", "list_files", "call_api", "process_data",
      "lm_studio_generate", "lm_studio_chat", "lm_studio_list_models",
      "lm_studio_test_connection">>

\* only read_file enabled; everything enabled; nothing enabled but the
\* adapter; an adapter tool and a name without handler enabled, no adapter
DispatchConfigs ==
    {[tools_enabled |-> <<"read_file">>, lm_enabled |-> FALSE,
      lm_base_url |-> Absent, resources_enabled |-> FALSE],
     [tools_enabled |-> AllNames, lm_enabled |-> TRUE,
      lm_base_url |-> Given(OtherUrl), resources_enabled |-> TRUE],
     [tools_enabled |-> <<>>, lm_enabled |-> TRUE,
      lm_base_url |-> Absent, resources_enabled |-> FALSE],
     [tools_enabled |-> <<"lm_studio_list_models", "calculate">>,
      lm_enabled |-> FALSE,
      lm_base_url |-> Absent, resources_enabled |-> FALSE]}

InFile == Rel(<<nF>>)
SiblingFile == Rel(<<DotDot, nAB, nF>>)
AboveFile == Rel(<<DotDot, nF>>)

DataTexts ==
    {Malformed,
     JsonText(JList(<<JInt(2), JInt(1), JInt(2)>>)),
     JsonText(JList(<<JInt(1), JStr("a")>>)),
     JsonText(JObj([k |-> JInt(1)]))}

Operations == {"filter", "sort", "transform", "aggregate", "reverse"}

\* the complete argument bags; the bags tried are these with any keys left out
FullBags(name) ==
    CASE name = "read_file" ->
            {[path |-> p] : p \in {InFile, SiblingFile, AboveFile}}
      [] name = "write_file" ->
            {[path |-> p, content |-> <<"y", "y">>] :
                p \in {InFile, SiblingFile, AboveFile}}
      [] name = "list_files" ->
            {[directory |-> p] : p \in {Rel(<<>>), Rel(<<DotDot, nAB>>)}}
      [] name = "call_api" ->
            {[url |-> <<"http://api/x">>, method |-> m] :
                m \in {"GET", "delete"}}
      [] name = "process_data" ->
            {[data |-> d, operation |-> o] :
                d \in DataTexts, o \in Operations}
      [] name = "lm_studio_generate" ->
            {[prompt |-> <<"p">>, model |-> m] : m \in {"m2", ""}}
      [] name = "lm_studio_chat" ->
            {[messages |-> <<"msg">>, model |-> m] : m \in {"m2", ""}}
      [] OTHER -> {<<>>}

ArgBags(name) ==
    {NotADict}
    \cup {Dict([k \in K |-> b[k]]) :
            <<b, K>> \in {<<b2, K2>> \in FullBags(name) \X SUBSET
                            {"path", "content", "directory", "url", "method",
                             "data", "operation", "prompt", "messages",
                             "model"} : K2 \subseteq DOMAIN b2}}

InitDispatch ==
    /\ configFile \in {ConfigFileOf("object", o) : o \in DispatchConfigs}
    /\ started = "no"
    /\ config = None
    /\ lm_studio = None
    /\ listed_tools = NotCalled
    /\ listed_resources = NotCalled
    /\ fs \in InitialFs
    /\ fcall = NotCalled
    /\ inv = NoInvocation
    /\ dcall = NotCalled
    /\ prev = NoHistory
    /\ vcall = NotCalled
    /\ clients = NoClients
    /\ environ = Absent

NextDispatch ==
    \/ Construct
    \/ \E name \in ConfigNames : \E args \in ArgBags(name) :
          CallTool(name, args)
    \/ \E resp \in ApiResponses \cup ModelsResponses \cup CompletionResponses :
          Respond(resp)

SpecDispatch == InitDispatch /\ [][NextDispatch]_vars

-----------------------------------------------------------------------------
(* One LMStudioTools object called again and again, as test_lm_studio.py  *)
(* does: each call runs to its end before the next starts                 *)

AdapterOps ==
    {"generate_text", "chat_completion", "list_models", "test_connection"}

\* the model argument: omitted, or a model named by the caller
ModelArgs == {Absent, Given("m1")}

AdapterStart(lm, op, model) ==
    CASE op = "generate_text" -> generate_text(lm, <<"Hello">>, model)
      [] op = "chat_completion" -> chat_completion(lm, <<"Hello">>, model)
      [] op = "list_models" -> list_models(lm)
      [] OTHER -> test_connection(lm)

\* the call in progress or last finished: what was asked, the requests
\* sent, the responses received, the result
AdapterCallRecord(op, model, step, requests_before, responses) ==
    IF step.pc = "await"
    THEN [pc |-> "await", op |-> op, model |-> model,
          requests |-> Append(requests_before, step.request),
          responses |-> responses, ctx |-> step.ctx, res |-> None]
    ELSE [pc |-> "done", op |-> op, model |-> model,
          requests |-> requests_before, responses |-> responses,
          ctx |-> None, res |-> step.res]

\* the operation raised, or test_connection reported "disconnected"
Failed(call) ==
    \/ ~call.res.ok
    \/ call.op = "test_connection" /\ call.res.value.status = "disconnected"

\* what the client has seen once a call is over: the model the latest
\* resolving call sent its POST with, and whether the last call failed
Remember(history, call) ==
    IF call.pc # "done" THEN history
    ELSE [model |-> IF /\ call.op \in {"generate_text", "chat_completion"}
                       /\ NoModel(call.model)
                       /\ Len(call.requests) = 2
                    THEN Given(call.requests[2].model)
                    ELSE history.model,
          failed |-> Failed(call)]

AdapterCall(op, model) ==
    /\ inv.pc # "await"
    /\ prev' = Remember(prev, inv)
    /\ inv' = AdapterCallRecord(op, model, AdapterStart(lm_studio, op, model),
                                <<>>, <<>>)
    /\ UNCHANGED <<vcall, clients, environ, dcall, configFile, started, config, lm_studio,
                   listed_tools, listed_resources, fs, fcall>>

AdapterRespond(resp) ==
    /\ inv.pc = "await"
    /\ resp \in ResponsesFor(inv.ctx)
    /\ inv' = AdapterCallRecord(inv.op, inv.model,
                                Resume(lm_studio, inv.ctx, resp),
                                inv.requests, Append(inv.responses, resp))
    /\ UNCHANGED <<vcall, clients, environ, dcall, prev, configFile, started, config,
                   lm_studio, listed_tools, listed_resources, fs, fcall>>

\* tools = LMStudioTools(): no base_url given, LM_STUDIO_URL unset or set
InitAdapter ==
    /\ configFile = ConfigFileOf("no_path", EmptyConfig)
    /\ started = "no"
    /\ config = None
    /\ environ \in Environments
    /\ lm_studio = LMStudioTools_init(None, environ)
    /\ listed_tools = NotCalled
    /\ listed_resources = NotCalled
    /\ fs = BaseFs
    /\ fcall = NotCalled
    /\ inv = NoInvocation
    /\ dcall = NotCalled
    /\ prev = NoHistory
    /\ vcall = NotCalled
    /\ clients = [api |-> NoClient, lm |-> NewClient]

NextAdapter ==
    \/ \E op \in AdapterOps : \E model \in ModelArgs : AdapterCall(op, model)
    \/ \E resp \in ModelsResponses \cup CompletionResponses :
          AdapterRespond(resp)

SpecAdapter == InitAdapter /\ [][NextAdapter]_vars

-----------------------------------------------------------------------------
(* Two call_tool coroutines on one event loop: each runs from one await   *)
(* to the next without interruption, and the other may run in between.    *)
(* What a coroutine holds between awaits (name, arguments, model) is in   *)
(* its own frame; self.config, self.lm_studio and the clients are shared. *)

Tasks == {1, 2}

\* everything enabled, the adapter at its default address
ConcurrentConfig ==
    [tools_enabled |-> AllNames, lm_enabled |-> TRUE, lm_base_url |-> Absent,
     resources_enabled |-> FALSE]

\* the invocations tried: those that suspend at a network await
ConcurrentCalls ==
    {<<"lm_studio_generate", Dict([prompt |-> <<"p">>])>>,
     <<"lm_studio_generate", Dict([prompt |-> <<"p">>, model |-> "m1"])>>,
     <<"lm_studio_chat", Dict([messages |-> <<"msg">>])>>,
     <<"call_api", Dict([url |-> <<"http://api/x">>])>>}

\* the responses tried: no connection, no answer in time, any 200
ConcurrentResponses(ctx) ==
    {r \in ResponsesFor(ctx) : r.kind # "http" \/ r.status = 200}

\* a resumed coroutine goes on with the locals of a coroutine suspended in
\* the same place, as if they were kept on the shared object
ResumeTask_shared_frame(invs, t, lm, resp) ==
    LET others == {u \in DOMAIN invs :
                      /\ u # t
                      /\ invs[u].pc = "await"
                      /\ invs[u].ctx.op = invs[t].ctx.op
                      /\ invs[u].ctx.op # "call_api"
                      /\ invs[u].ctx.stage = invs[t].ctx.stage}
        ctx == IF others = {} THEN invs[t].ctx
               ELSE invs[CHOOSE u \in others : TRUE].ctx
    IN  ResumeBackend(lm, ctx, resp)

\* a resumed coroutine goes on with its own locals
ResumeTask(invs, t, lm, resp) == ResumeBackend(lm, invs[t].ctx, resp)

\* task t is given an invocation and runs to its first await
ConcurrentCallTool(t, name, args) ==
    /\ inv[t].pc = "idle"
    /\ LET r == Route(name, args, lm_studio, fs) IN
       /\ fs' = r.fs
       /\ inv' = [inv EXCEPT ![t] = Invocation(name, args, r, <<>>, <<>>)]
    /\ UNCHANGED <<vcall, clients, environ, dcall, prev, configFile, started, config,
                   lm_studio, listed_tools, listed_resources, fcall>>

\* the request task t waits for completes and t runs on
ConcurrentRespond(t, resp) ==
    /\ inv[t].pc = "await"
    /\ resp \in ConcurrentResponses(inv[t].ctx)
    /\ inv' = [inv EXCEPT ![t] =
                  Invocation(inv[t].name, inv[t].arguments,
                             Routed(inv[t].routed,
                                    ResumeTask(inv, t, lm_studio, resp), fs),
                             inv[t].requests, Append(inv[t].responses, resp))]
    /\ UNCHANGED <<vcall, clients, environ, dcall, prev, configFile, started, config,
                   lm_studio, listed_tools, listed_resources, fs, fcall>>

InitConcurrent ==
    /\ configFile = ConfigFileOf("object", ConcurrentConfig)
    /\ started = "ok"
    /\ config = ConcurrentConfig
    /\ environ = Absent
    /\ lm_studio = InitLmStudio(ConcurrentConfig, Absent)
    /\ clients = ClientsBuilt(ConcurrentConfig)
    /\ listed_tools = NotCalled
    /\ listed_resources = NotCalled
    /\ fs = BaseFs
    /\ fcall = NotCalled
    /\ inv = [t \in Tasks |-> NoInvocation]
    /\ dcall = NotCalled
    /\ prev = NoHistory
    /\ vcall = NotCalled

NextConcurrent ==
    \/ \E t \in Tasks : \E call \in ConcurrentCalls :
          ConcurrentCallTool(t, call[1], call[2])
    \/ \E t \in Tasks :
          \E resp \in ApiResponses \cup ModelsResponses
                         \cup CompletionResponses :
              ConcurrentRespond(t, resp)

SpecConcurrent == InitConcurrent /\ [][NextConcurrent]_vars

-----------------------------------------------------------------------------
(* Claims about the dispatcher *)

Called == inv.pc # "idle"
Ended == inv.pc = "done"

UnknownToolEnvelope(name) ==
    <<[text |-> <<"Error: ", "Unknown tool: ", name>>, isError |-> TRUE]>>

IsErrorEnvelope(env) ==
    /\ Len(env) = 1
    /\ "isError" \in DOMAIN env[1]
    /\ env[1].isError = TRUE

\* C1: for every tool name that is not in tools.enabled, call_tool returns
\* the single-entry error envelope "Unknown tool: {name}" and runs no
\* backend operation.
C1_DisabledIsUnknown ==
    (Called /\ inv.name \notin Range(config.tools_enabled)) =>
        /\ inv.routed = <<>>
        /\ inv.pc = "done"
        /\ inv.envelope = UnknownToolEnvelope(inv.name)

\* the required set of a tool, as its descriptor declares it
RequiredOf(name) ==
    CASE name = "read_file" -> {"path"}
      [] name = "write_file" -> {"path", "content"}
      [] name = "list_files" -> {"directory"}
      [] name = "call_api" -> {"url", "method"}
      [] name = "process_data" -> {"data", "operation"}
      [] name = "lm_studio_generate" -> {"prompt"}
      [] name = "lm_studio_chat" -> {"messages"}
      [] OTHER -> {}

\* C2: for every enabled tool and every argument bag that omits a required
\* field, call_tool returns an error envelope and does not route the call
\* to the backend operation.
C2_MissingRequiredRejected ==
    (/\ Called
     /\ inv.name \in Range(config.tools_enabled)
     /\ inv.arguments.dict
     /\ RequiredOf(inv.name) \ DOMAIN inv.arguments.kv # {}) =>
        /\ inv.routed = <<>>
        /\ inv.pc = "done"
        /\ IsErrorEnvelope(inv.envelope)

\* C3: call_tool never raises outward: whatever the name, the arguments and
\* the backend outcome, an invocation that ends has returned an envelope
\* with exactly one entry.
C3_AlwaysOneEntry ==
    /\ (inv.pc = "await" => inv.outcome = "pending")
    /\ (Ended => inv.outcome = "returned" /\ Len(inv.envelope) = 1)

\* an unexpected exception of the backend, after a network round trip
C3_Witness ==
    /\ Ended
    /\ inv.backend = Given(JsonDecodeError)
    /\ inv.outcome = "returned"
    /\ Len(inv.envelope) = 1

Listable == list_tools(config, lm_studio)

\* C11: each descriptor that list_tools returns has a handler in call_tool:
\* a call of a listed name with all the arguments its descriptor requires
\* is routed to a backend operation and never ends in "Unknown tool".
C11_ListedHasHandler ==
    (/\ Called
     /\ inv.arguments.dict
     /\ \E i \in 1..Len(Listable) :
            /\ Listable[i].name = inv.name
            /\ Range(Listable[i].required) \subseteq DOMAIN inv.arguments.kv) =>
        /\ inv.routed # <<>>
        /\ (Ended => inv.envelope # UnknownToolEnvelope(inv.name))

C11_Witness ==
    /\ Ended
    /\ inv.name = "lm_studio_list_models"
    /\ \E i \in 1..Len(Listable) : Listable[i].name = inv.name
    /\ inv.routed = <<"LMStudioTools.list_models">>
    /\ inv.backend.value.ok

-----------------------------------------------------------------------------
(* Claims about the LM Studio adapter *)

\* the response carried a model list: a JSON object with a "data" list
HasModelList(resp) ==
    resp.kind = "http" /\ resp.body.json /\ resp.body.data.set

\* C8: when the caller gives no model and the gateway's model list is
\* [m1, m2, ...], generate_text sends its completion POST with model = m1
\* and its result names m1; when the list is empty it fails with "No models
\* available" and no POST is sent.
C8_DefaultModelIsFirst ==
    (/\ Called
     /\ inv.routed = <<"LMStudioTools.generate_text">>
     /\ "model" \notin DOMAIN inv.arguments.kv
     /\ Len(inv.responses) >= 1
     /\ HasModelList(inv.responses[1])) =>
        LET listed == inv.responses[1].body.data.value IN
        IF listed # <<>>
        THEN /\ Len(inv.requests) = 2
             /\ inv.requests[2].method = "POST"
             /\ inv.requests[2].model = listed[1]
             /\ (Ended /\ inv.backend.value.ok =>
                    inv.backend.value.value.model = listed[1])
        ELSE /\ Ended
             /\ inv.backend = Given(NoModelsAvailable)
             /\ Len(inv.requests) = 1
             /\ inv.requests[1].method = "GET"

C8_Witness ==
    /\ Ended
    /\ inv.routed = <<"LMStudioTools.generate_text">>
    /\ "model" \notin DOMAIN inv.arguments.kv
    /\ HasModelList(inv.responses[1])
    /\ inv.responses[1].body.data = Given(<<"m1", "m2">>)
    /\ Len(inv.requests) = 2
    /\ inv.requests[2].model = "m1"
    /\ inv.backend.value.ok
    /\ inv.backend.value.value.model = "m1"

\* C9: test_connection never raises: when listing models fails (no
\* connection, timeout, non-2xx, body that is not JSON) it returns
\* {status: disconnected, url, error}; when the gateway answers with N
\* models it returns {status: connected, models_count: N} and the N ids in
\* the gateway's order.
C9_TestConnectionNeverRaises ==
    (Ended /\ inv.routed = <<"LMStudioTools.test_connection">>) =>
        /\ inv.backend.set
        /\ inv.backend.value.ok
        /\ LET resp == inv.responses[1]
               status == inv.backend.value.value
           IN  IF resp.kind = "http" /\ IsSuccess(resp.status)
                  /\ resp.body.json
               THEN LET models == IF resp.body.data.set
                                  THEN resp.body.data.value ELSE <<>>
                    IN  /\ status.status = "connected"
                        /\ status.models_count = Len(models)
                        /\ status.models = models
               ELSE /\ status.status = "disconnected"
                    /\ status.url = lm_studio.base_url
                    /\ "error" \in DOMAIN status
                    /\ (resp.kind = "connect_error" =>
                          status.error = <<"Cannot connect to LM Studio. Make sure it's running.">>)

C9_Witness ==
    /\ Ended
    /\ inv.routed = <<"LMStudioTools.test_connection">>
    /\ inv.responses = <<ConnectError>>
    /\ inv.backend.value.ok
    /\ inv.backend.value.value.status = "disconnected"

\* the response the invocation received last
LastResponse == inv.responses[Len(inv.responses)]

\* C12: for generate_text and chat_completion alike, a non-2xx response of
\* the gateway to the completion request makes the operation fail with
\* "LM Studio API error: <status>".
C12_HttpErrorPolicy ==
    (/\ Called
     /\ inv.routed \in {<<"LMStudioTools.generate_text">>,
                        <<"LMStudioTools.chat_completion">>}
     /\ Len(inv.responses) >= 1
     /\ inv.requests[Len(inv.responses)].method = "POST"
     /\ LastResponse.kind = "http"
     /\ ~IsSuccess(LastResponse.status)) =>
        /\ Ended
        /\ inv.backend = Given(ApiError(LastResponse.status))

\* a "Cannot connect to LM Studio" failure, in either of the two wordings
GatewayUnreachable(res) ==
    /\ ~res.ok
    /\ res.type = "Exception"
    /\ res.msg[1] \in {"Cannot connect to LM Studio at ",
                       "Cannot connect to LM Studio. Make sure it's running."}

\* C13: a connection failure on any gateway request (the model-list GET or
\* the completion POST) makes generate_text, chat_completion and list_models
\* fail with a "Cannot connect to LM Studio" failure.
C13_ConnectFailureIsUnreachable ==
    (/\ Called
     /\ inv.routed \in {<<"LMStudioTools.generate_text">>,
                        <<"LMStudioTools.chat_completion">>,
                        <<"LMStudioTools.list_models">>}
     /\ Len(inv.responses) >= 1
     /\ LastResponse = ConnectError) =>
        /\ Ended
        /\ inv.backend.set
        /\ GatewayUnreachable(inv.backend.value)
        /\ IsErrorEnvelope(inv.envelope)

\* the connection fails on the completion POST, after a model list came
C13_Witness ==
    /\ Ended
    /\ inv.routed = <<"LMStudioTools.chat_completion">>
    /\ Len(inv.responses) = 2
    /\ inv.responses[2] = ConnectError
    /\ GatewayUnreachable(inv.backend.value)

\* the gateway answers as a gateway in order does: 200, a JSON body, and
\* for a completion at least one model to use and one choice to return
Responds(call, i) ==
    LET resp == call.responses[i] IN
    /\ resp.kind = "http"
    /\ IsSuccess(resp.status)
    /\ resp.body.json
    /\ IF call.op \in {"list_models", "test_connection"} THEN TRUE
       ELSE IF i = 1 /\ NoModel(call.model)
            THEN resp.body.data.set /\ resp.body.data.value # <<>>
       ELSE resp.body.choices # Given(<<>>)

OmitsModel ==
    /\ inv.pc # "idle"
    /\ inv.op \in {"generate_text", "chat_completion"}
    /\ NoModel(inv.model)

\* C20: the adapter keeps no state between calls.  Every generate_text or
\* chat_completion call with an omitted model first sends its own GET of
\* the model list and sends its POST with the first id of that response,
\* whatever model an earlier call resolved; and after a failed operation
\* the next one sends a request of its own and succeeds when the gateway
\* answers it.
C20_NoStateBetweenCalls ==
    /\ OmitsModel =>
          /\ Len(inv.requests) >= 1
          /\ inv.requests[1] = GetModels(lm_studio)
          /\ Len(inv.requests) >= 2 =>
                /\ HasModelList(inv.responses[1])
                /\ inv.requests[2].model = inv.responses[1].body.data.value[1]
    /\ (inv.pc # "idle" /\ prev.failed) =>
          /\ Len(inv.requests) >= 1
          /\ (/\ inv.pc = "done"
              /\ \A i \in 1..Len(inv.responses) : Responds(inv, i)) =>
                ~Failed(inv)

\* an earlier call resolved m1 and the last call failed; this call, its
\* model omitted, resolved m2 from its own model list and succeeded
C20_Witness ==
    /\ OmitsModel
    /\ inv.pc = "done"
    /\ prev = [model |-> Given("m1"), failed |-> TRUE]
    /\ Len(inv.requests) = 2
    /\ inv.requests[2].model = "m2"
    /\ inv.res.ok

\* the base URL the configuration and the environment call for
ResolvedBaseUrl ==
    IF config.lm_base_url.set THEN config.lm_base_url.value
    ELSE IF environ.set THEN environ.value
    ELSE DefaultUrl

\* C19: when the inference adapter is enabled, its base URL is the
\* configuration's lm_studio.base_url if the configuration specifies one,
\* else the value of LM_STUDIO_URL if the environment sets it, else
\* http://localhost:1234 (trailing slashes dropped).
C19_BaseUrlResolution ==
    (started = "ok" /\ config.lm_enabled) =>
        lm_studio.base_url = rstrip_slash(ResolvedBaseUrl)

\* a network attempt that failed: no connection, no answer in time, or,
\* for the gateway (the proxy hands every status on as a result), a
\* status that is not 2xx
FailedAttempt(name, resp) ==
    \/ resp.kind \in {"connect_error", "timeout"}
    \/ name # "call_api" /\ ~IsSuccess(resp.status)

\* the invocation ended with what its backend raised, or with the
\* "disconnected" status of test_connection
SurfacedFailure ==
    /\ inv.pc = "done"
    /\ inv.backend.set
    /\ \/ ~inv.backend.value.ok
       \/ /\ inv.name = "lm_studio_test_connection"
          /\ inv.backend.value.value.status = "disconnected"

\* C21: within one invocation no request is sent twice, and as soon as one
\* attempt fails (connection error, timeout, or a status that is not 2xx,
\* the model-list GET included) the operation ends with a failure and no
\* further request is sent.
C21_NoRetryImmediateSurfacing ==
    Called =>
        /\ \A i, j \in 1..Len(inv.requests) :
              i # j => inv.requests[i] # inv.requests[j]
        /\ \A i \in 1..Len(inv.responses) :
              FailedAttempt(inv.name, inv.responses[i]) =>
                  /\ Len(inv.requests) = i
                  /\ SurfacedFailure

\* the operations the timeout policy names
TimeoutBound ==
    {"call_api", "lm_studio_generate", "lm_studio_chat",
     "lm_studio_list_models"}

\* the request the invocation made last ran out of time
LastTimedOut ==
    /\ Called
    /\ inv.name \in TimeoutBound
    /\ inv.responses # <<>>
    /\ inv.responses[Len(inv.responses)] = Timeout

\* what the backends raise when the peer cannot be reached
UnreachableFailures ==
    {CannotConnect,
     Raise("Exception", <<"Request failed: ", "connect failed">>)}
    \cup (IF lm_studio = None THEN {} ELSE {CannotConnectAt(lm_studio)})

\* a failure that says the time ran out: the proxy's message, the
\* transport's timeout exception from the adapter
IsTimeoutFailure(res) ==
    /\ ~res.ok
    /\ \/ res.type = "ReadTimeout"
       \/ /\ res.type = "Exception"
          /\ res.msg[Len(res.msg)] = " timed out"

\* C22: when a request of call_api, generate_text, chat_completion or
\* list_models runs out of time, the invocation ends, with a timeout
\* failure, which is none of the failures that stand for an unreachable
\* peer, and with an error entry.
C22_TimeoutIsTyped ==
    LastTimedOut =>
        /\ Ended
        /\ inv.backend.set
        /\ IsTimeoutFailure(inv.backend.value)
        /\ inv.backend.value \notin UnreachableFailures
        /\ IsErrorEnvelope(inv.envelope)
        /\ inv.envelope \notin {ErrorEnvelope(f) : f \in UnreachableFailures}

\* the completion POST of a chat ran out of time
C22_Witness ==
    /\ LastTimedOut
    /\ inv.name = "lm_studio_chat"
    /\ Len(inv.responses) = 2
    /\ inv.pc = "done"

Backends == {"api", "lm"}

\* main() is over: __init__ raised, run returned, or run raised
ServerExited == started \in {"failed", "ended", "crashed"}

\* C23: each network-capable backend creates exactly one HTTP client, at
\* construction, and on every exit path of the server (failure during
\* startup, normal end of run, failure during run) every client created has
\* been closed, exactly once.
C23_ClientLifecycle ==
    /\ \A b \in Backends : clients[b].created <= 1
    /\ started # "no" =>
          /\ clients["api"].created = 1
          /\ (clients["lm"].created = 1) <=> (lm_studio # None)
    /\ ServerExited =>
          \A b \in Backends :
              clients[b].created = 1 => clients[b].closed = 1

\* the invocation run alone: the handler started, then resumed with each
\* of the responses in turn
RECURSIVE AloneFrom(_, _)
AloneFrom(i, responses) ==
    IF responses = <<>> \/ i.pc # "await" THEN i
    ELSE AloneFrom(Invocation(i.name, i.arguments,
                              Routed(i.routed,
                                     ResumeBackend(lm_studio, i.ctx,
                                                   Head(responses)), BaseFs),
                              i.requests, Append(i.responses, Head(responses))),
                   Tail(responses))

Alone(name, args, responses) ==
    AloneFrom(Invocation(name, args,
                         Route(name, args,
                               InitLmStudio(ConcurrentConfig, Absent), BaseFs),
                         <<>>, <<>>), responses)

\* C24: in every interleaving of call_tool invocations suspended at
\* network awaits, the shared state (configuration, adapter and its base
\* URL, clients) stays as the constructor left it, and every invocation is
\* where it would be, with the requests and the envelope it would have, had
\* it run alone with the same responses; in particular its POST carries the
\* first id of its own model list.
C24_ConcurrentInvocationsIndependent ==
    /\ config = ConcurrentConfig
    /\ lm_studio = InitLmStudio(ConcurrentConfig, Absent)
    /\ clients = ClientsBuilt(ConcurrentConfig)
    /\ \A t \in Tasks :
          inv[t].pc # "idle" =>
              /\ inv[t] = Alone(inv[t].name, inv[t].arguments,
                                inv[t].responses)
              /\ (/\ Len(inv[t].requests) = 2
                  /\ "model" \notin DOMAIN inv[t].arguments.kv) =>
                    inv[t].requests[2].model =
                        inv[t].responses[1].body.data.value[1]

\* both invocations resolved a model, each from its own list, m1 for one
\* and m2 for the other, and both returned
C24_Witness ==
    /\ \A t \in Tasks : inv[t].pc = "done" /\ Len(inv[t].requests) = 2
    /\ inv[1].requests[2].model = "m1"
    /\ inv[2].requests[2].model = "m2"
    /\ inv[1].name = inv[2].name
    /\ ~IsErrorEnvelope(inv[1].envelope)
    /\ ~IsErrorEnvelope(inv[2].envelope)

-----------------------------------------------------------------------------
(* Claims about the file backend *)

\* a location is the working directory or below it
InsideRoot(loc) == IsPrefix(base_path, loc)

OutsideNodes(f) == {l \in DOMAIN f : ~InsideRoot(l)}

\* C4: read_file, write_file, list_files and delete_file fail with the
\* path-escape error for every path argument that resolves to a location
\* which is neither the root nor below it, and leave everything outside the
\* root as it was.
C4_PathConfinement ==
    fcall.called =>
        (~InsideRoot(Resolve(FullPath(fcall.value.arg))) =>
            /\ fcall.value.res = PathEscape
            /\ OutsideNodes(fs) = OutsideNodes(BaseFs)
            /\ \A l \in OutsideNodes(fs) : fs[l] = BaseFs[l])

\* C14: after write_file(P, C) has succeeded for a path P inside the root
\* (written without ".."), read_file(P) returns exactly C as long as P was
\* not written or deleted in between; after a later write_file(P, C2) it
\* returns C2.
C14_RoundTrip ==
    LET P == fcall.value.arg
        loc == Resolve(FullPath(P))
    IN  (/\ fcall.called
         /\ fcall.value.op = "read_file"
         /\ DotDot \notin Range(P.segs)
         /\ InsideRoot(loc)
         /\ loc \in DOMAIN fcall.value.written) =>
            fcall.value.res = Return(fcall.value.written[loc])

\* the files the caller wrote directly under the root and did not delete
WrittenInRoot ==
    {loc \in DOMAIN fcall.value.written : Parent(loc) = base_path}

\* what the root holds
RootItems == {l \in DOMAIN fs : l # <<>> /\ Parent(l) = base_path}

ListsRoot ==
    /\ fcall.called
    /\ fcall.value.op = "list_files"
    /\ fcall.value.arg = Rel(<<>>)

\* C18: after write_file has succeeded for distinct file names directly
\* under the root and none of them was deleted, list_files(".") returns an
\* entry for each of them, with that name and type file, and one entry per
\* item present in the root.
C18_ListsWrittenFiles ==
    ListsRoot =>
        /\ fcall.value.res.ok
        /\ \A loc \in WrittenInRoot :
              \E e \in fcall.value.res.value :
                  e.name = loc[Len(loc)] /\ e.type = "file"
        /\ \A l \in RootItems :
              Cardinality({e \in fcall.value.res.value :
                              e.name = l[Len(l)]}) = 1
        /\ Cardinality(fcall.value.res.value) = Cardinality(RootItems)

\* two files written under the root, then the root listed
C18_Witness ==
    /\ ListsRoot
    /\ fcall.value.res.ok
    /\ WrittenInRoot = {<<nA, nF>>, <<nA, nAB>>}

\* the failures the frame condition is about: the path-escape error of any
\* of the four methods, and FileNotFoundError from read_file, delete_file
\* or list_files on a path inside the root
FrameFailure(call) ==
    \/ call.res = PathEscape
    \/ /\ ~call.res.ok
       /\ call.res.type = "FileNotFoundError"
       /\ call.op \in {"read_file", "delete_file", "list_files"}
       /\ InsideRoot(Resolve(FullPath(call.arg)))

\* C28: a file operation that fails with the path-escape error, or with
\* FileNotFoundError on a path inside the root, leaves the file system as
\* it was: no file or directory is created, changed or deleted.
C28_FailedOperationLeavesDisk ==
    [][(fcall'.called /\ FrameFailure(fcall'.value)) => fs' = fs]_vars

\* a write_file above the root, into a directory that does not exist, was
\* rejected, and the directory still does not exist
C28_Witness ==
    /\ fcall.called
    /\ fcall.value.op = "write_file"
    /\ fcall.value.arg = Rel(<<DotDot, nF, nF>>)
    /\ fcall.value.res = PathEscape
    /\ <<nF>> \notin DOMAIN fs

-----------------------------------------------------------------------------
(* Claims about the data backend *)

SortCall == dcall.called /\ dcall.operation = "sort"

\* the input is a JSON list whose items can be ordered: all numbers or all
\* strings
OrderableList ==
    /\ dcall.data.json
    /\ dcall.data.value.t = "list"
    /\ \/ \A i \in 1..Len(dcall.data.value.items) :
            dcall.data.value.items[i].t = "int"
       \/ \A i \in 1..Len(dcall.data.value.items) :
            dcall.data.value.items[i].t = "str"

NotGreater(a, b) ==
    IF a.t = "int" THEN a.n <= b.n ELSE Ord(a.c) <= Ord(b.c)

Ascending(items) ==
    \A i \in 1..Len(items) - 1 : NotGreater(items[i], items[i + 1])

Occurrences(items, x) == Cardinality({i \in 1..Len(items) : items[i] = x})

IsPermutation(a, b) ==
    /\ Len(a) = Len(b)
    /\ \A x \in Range(a) \cup Range(b) :
          Occurrences(a, x) = Occurrences(b, x)

\* C15: process_data with operation sort on a JSON list (of numbers or of
\* strings) returns an ascending permutation of the input, duplicates kept;
\* an input that is already ascending comes back as it is, so sorting the
\* result again changes nothing.
C15_SortAscendingPermutation ==
    (SortCall /\ OrderableList) =>
        /\ dcall.res.ok
        /\ dcall.res.value.t = "list"
        /\ Ascending(dcall.res.value.items)
        /\ IsPermutation(dcall.res.value.items, dcall.data.value.items)
        /\ (Ascending(dcall.data.value.items) =>
                dcall.res.value = dcall.data.value)
        /\ process_data(JsonText(dcall.res.value), "sort", NoKwargs)
                = dcall.res

AggregateCall(function) ==
    /\ dcall.called
    /\ dcall.operation = "aggregate"
    /\ dcall.kwargs.function = Given(function)
    /\ dcall.data.json
    /\ dcall.data.value.t = "list"

\* C16: process_data with operation aggregate and function=count returns
\* the number of elements of the input list, whatever the elements are and
\* whether or not a field is given.
C16_CountIsLength ==
    AggregateCall("count") =>
        dcall.res = Return(JInt(Len(dcall.data.value.items)))

\* the items are objects, and the v they carry is a number
ObjectsWithNumbers(items) ==
    \A i \in 1..Len(items) :
        /\ items[i].t = "obj"
        /\ "v" \in DOMAIN items[i].fields => items[i].fields["v"].t = "int"

\* the v values of the items added up, from the last item to the first
RECURSIVE TotalOfV(_)
TotalOfV(items) ==
    IF items = <<>> THEN 0
    ELSE TotalOfV(SubSeq(items, 1, Len(items) - 1))
         + (IF "v" \in DOMAIN items[Len(items)].fields
            THEN items[Len(items)].fields["v"].n ELSE 0)

\* C17: process_data with operation aggregate, function=sum and field=v on
\* a JSON list of objects whose v values are numbers returns the sum of the
\* v values of the items.
C17_SumOfField ==
    (/\ AggregateCall("sum")
     /\ dcall.kwargs.field = Given("v")
     /\ ObjectsWithNumbers(dcall.data.value.items)) =>
        dcall.res = Return(JInt(TotalOfV(dcall.data.value.items)))

FilterCall ==
    /\ dcall.called
    /\ dcall.operation = "filter"
    /\ dcall.kwargs.condition.set
    /\ dcall.data.json
    /\ dcall.data.value.t = "list"

\* what the conditions tried say: the key and the value of those of the
\* form key==value
ConditionMeaning(c) ==
    CASE c = <<"v", "=", "=", "1">> -> [parsed |-> TRUE, key |-> "v",
                                       value |-> <<"1">>]
      [] c = <<"v", Blank, "=", "=", Blank, "'", "a", "'">> ->
            [parsed |-> TRUE, key |-> "v", value |-> <<"a">>]
      [] c = <<"w", "=", "=">> -> [parsed |-> TRUE, key |-> "w",
                                  value |-> <<>>]
      [] OTHER -> [parsed |-> FALSE]

\* the item passes: its text for the key is the value; an item that is not
\* an object, and any item under a condition without meaning, passes
Passes(item, c) ==
    LET m == ConditionMeaning(c) IN
    IF item.t # "obj" \/ ~m.parsed THEN TRUE
    ELSE (IF m.key \in DOMAIN item.fields THEN StrOf(item.fields[m.key])
          ELSE <<>>) = m.value

\* C25: filter on a JSON list under a condition key==value keeps, in their
\* order, exactly the object items whose value for key has the text value
\* (blanks and quotes around it dropped) together with every item that is
\* not an object; under a condition without "==" every item is kept.
C25_FilterEvaluation ==
    FilterCall =>
        dcall.res =
            Return(JList(SelectSeq(dcall.data.value.items,
                                   LAMBDA x : Passes(x,
                                       dcall.kwargs.condition.value))))

\* the names of the schema's top-level required list
RequiredNames(schema) ==
    IF schema.required.set THEN Range(schema.required.value) ELSE {}

\* C26: for a schema shaped as the tool descriptors are (no entry named
\* "required" among its properties), validate_tool_input returns False
\* exactly when some field named in the schema's top-level required list
\* is missing from arguments, and True otherwise.
C26_ValidateRequired ==
    (vcall.called /\ ~vcall.schema.properties_required.set) =>
        (vcall.res = FALSE <=>
            \E f \in RequiredNames(vcall.schema) : f \notin vcall.arguments)

\* call_tool("process_data", ...) has ended, and it was given a valid JSON
\* text and an operation
DataThroughCallTool ==
    /\ Ended
    /\ inv.name = "process_data"
    /\ HasKey(inv.arguments, "data")
    /\ HasKey(inv.arguments, "operation")
    /\ inv.arguments.kv["data"].json

\* C27: through call_tool, process_data gets data and operation only; so
\* for every valid JSON input filter, transform and aggregate return the
\* parsed input as it is, and sort returns a list of numbers or of strings
\* in ascending order.
C27_OnlySortChangesData ==
    DataThroughCallTool =>
        LET data == inv.arguments.kv["data"].value
            operation == inv.arguments.kv["operation"]
        IN  /\ inv.routed = <<"DataTools.process_data">>
            /\ operation \in {"filter", "transform", "aggregate"} =>
                  inv.backend = Given(Return(data))
            /\ (/\ operation = "sort"
                /\ data.t = "list"
                /\ \A i \in 1..Len(data.items) : data.items[i].t = "int") =>
                  /\ inv.backend.set
                  /\ inv.backend.value.ok
                  /\ Ascending(inv.backend.value.value.items)
                  /\ IsPermutation(inv.backend.value.value.items,
                                   data.items)

-----------------------------------------------------------------------------
(* Claims about the catalog *)

ListedNames ==
    [i \in 1..Len(listed_tools.value) |-> listed_tools.value[i].name]

\* C5: list_tools never returns a descriptor whose name is not in
\* tools.enabled; with tools.enabled = ["read_file"] it returns exactly one
\* descriptor, named read_file.
C5_ListedAreEnabled ==
    listed_tools.called =>
        /\ \A n \in Range(ListedNames) : n \in Range(config.tools_enabled)
        /\ (config.tools_enabled = <<"read_file">> =>
                ListedNames = <<"read_file">>)

C5_Witness ==
    /\ listed_tools.called
    /\ config.tools_enabled = <<"read_file">>
    /\ ListedNames = <<"read_file">>

\* the declaration order the claim names
CatalogOrder ==
    <<"read_file", "write_file", "list_files", "call_api", "process_data",
      "lm_studio_generate", "lm_studio_chat", "lm_studio_list_models",
      "lm_studio_test_connection">>

LmToolNames ==
    {"lm_studio_generate", "lm_studio_chat", "lm_studio_list_models",
     "lm_studio_test_connection"}

InEnabled(n) == n \in Range(config.tools_enabled)

InEnabledAndServed(n) ==
    InEnabled(n) /\ (n \in LmToolNames => lm_studio # None)

\* C6 as stated: list_tools returns every catalog tool whose name is in
\* tools.enabled, in declaration order, whatever the configuration.
C6_Original ==
    listed_tools.called => ListedNames = SelectSeq(CatalogOrder, InEnabled)

\* C6 as amended: list_tools returns, in declaration order and whatever the
\* order of the configured names, every catalog tool whose name is in
\* tools.enabled, the four lm_studio_* tools only when the adapter exists
\* (lm_studio.enabled is true).
C6_FilteredCatalog ==
    listed_tools.called =>
        ListedNames = SelectSeq(CatalogOrder, InEnabledAndServed)

C6_Witness ==
    /\ listed_tools.called
    /\ config.tools_enabled = <<"write_file", "read_file">>
    /\ ListedNames = <<"read_file", "write_file">>

\* C10: when the configuration file is missing, is not valid JSON or cannot
\* be read, construction succeeds and nothing is enabled: no adapter, no
\* tools listed, no resources listed.
C10_FailClosed ==
    (started # "no" /\ configFile.kind \in BrokenKinds) =>
        /\ started = "ok"
        /\ lm_studio = None
        /\ (listed_tools.called => listed_tools.value = <<>>)
        /\ (listed_resources.called => listed_resources.value = <<>>)

C10_Witness ==
    /\ configFile.kind = "invalid_json"
    /\ started = "ok"
    /\ listed_tools.called /\ listed_tools.value = <<>>
    /\ listed_resources.called /\ listed_resources.value = <<>>

=============================================================================
